---- MODULE Spec2Model ----
\* Model of the structured-output retry loop (WeatherAgent.stream), the
\* ConfirmationAgent, and the two dispatch routers (WeatherAgentExecutor and
\* TwoAgentExecutor) of the a2ui weather agent.
\*
\* Texts are sequences of text segments.  A segment is either one character
\* that some operation of the program looks at ("[", "]", "{", "}", ",", ":",
\* ")", a blank, a newline) or an opaque run of characters that no operation
\* looks into: a quoted string literal without special characters
\* ("\"surfaceId\""), a word of prose, the run of three backticks (TICKS),
\* the run "json", and the delimiter token.  The text a sequence stands for
\* is the concatenation of its segments.  The character-set strips of the
\* program drop the segments TICKS and "json" whole and the first character
\* of the word null; no other opaque segment starts or ends with a backtick
\* or one of the characters j s o n.
EXTENDS Integers, Sequences, FiniteSets, TLC

\* ---------------------------------------------------------------------
\* Text primitives
\* ---------------------------------------------------------------------

DELIM == "---a2ui_JSON---"

WS == {" ", "\n"}

\* the run of three backticks that frames a fenced code block
TICKS == "<3 backticks>"

\* segments made only of characters of the strip set "```json"
FenceChars == {TICKS, "json"}

\* segments made only of characters of the strip set "```"
BackTicks == {TICKS}

RECURSIVE LStripSet(_, _)
\* str.lstrip(chars): drop leading segments made of the given characters
LStripSet(s, set) ==
    IF s # <<>> /\ Head(s) \in set THEN LStripSet(Tail(s), set) ELSE s

RECURSIVE RStripSet(_, _)
\* str.rstrip(chars)
RStripSet(s, set) ==
    IF s # <<>> /\ s[Len(s)] \in set
    THEN RStripSet(SubSeq(s, 1, Len(s) - 1), set)
    ELSE s

\* str.strip(): whitespace on both ends
Strip(s) == RStripSet(LStripSet(s, WS), WS)

RECURSIVE IndexFrom(_, _, _)
\* smallest j >= i with s[j] = c, or 0
IndexFrom(s, c, i) ==
    IF i > Len(s) THEN 0
    ELSE IF s[i] = c THEN i ELSE IndexFrom(s, c, i + 1)

\* str.find(c) + 1 (0 when absent)
Find(s, c) == IndexFrom(s, c, 1)

RECURSIVE RFindFrom(_, _, _)
RFindFrom(s, c, i) ==
    IF i < 1 THEN 0
    ELSE IF s[i] = c THEN i ELSE RFindFrom(s, c, i - 1)

\* str.rfind(c) + 1 (0 when absent)
RFind(s, c) == RFindFrom(s, c, Len(s))

RECURSIVE Count(_, _)
\* str.count(c)
Count(s, c) ==
    IF s = <<>> THEN 0
    ELSE (IF Head(s) = c THEN 1 ELSE 0) + Count(Tail(s), c)

RECURSIVE Repeat(_, _)
\* c * n  (the empty text when n <= 0)
Repeat(c, n) == IF n <= 0 THEN <<>> ELSE <<c>> \o Repeat(c, n - 1)

\* DELIM in s
HasDelimiter(s) == Find(s, DELIM) # 0

\* s.split(DELIM, 1): the text before and after the first delimiter
SplitText(s) == SubSeq(s, 1, Find(s, DELIM) - 1)

SplitJson(s) == SubSeq(s, Find(s, DELIM) + 1, Len(s))

RECURSIVE SkipWs(_, _)
\* first position >= i that does not hold whitespace
SkipWs(s, i) ==
    IF i <= Len(s) /\ s[i] \in WS THEN SkipWs(s, i + 1) ELSE i

\* ---------------------------------------------------------------------
\* Regular-expression substitution.  Every pattern of the program has the
\* form c1 \s* c2 \s* ... cn with literal characters ci.
\* ---------------------------------------------------------------------

RECURSIVE MatchPat(_, _, _)
\* end position (exclusive) of a match of pat starting at i, or 0
MatchPat(s, i, pat) ==
    IF pat = <<>> THEN i
    ELSE IF i > Len(s) \/ s[i] # Head(pat) THEN 0
    ELSE IF Len(pat) = 1 THEN i + 1
    ELSE MatchPat(s, SkipWs(s, i + 1), Tail(pat))

RECURSIVE SubFrom(_, _, _, _)
SubFrom(s, i, pat, repl) ==
    IF i > Len(s) THEN <<>>
    ELSE LET e == MatchPat(s, i, pat)
         IN  IF e # 0 THEN repl \o SubFrom(s, e, pat, repl)
             ELSE <<s[i]>> \o SubFrom(s, i + 1, pat, repl)

\* re.sub(pattern, repl, s): leftmost non-overlapping matches
ReSub(s, pat, repl) == SubFrom(s, 1, pat, repl)

\* ---------------------------------------------------------------------
\* Repair Engine
\* ---------------------------------------------------------------------

\* WeatherAgent._repair_json: trailing separators before a closer
_repair_json(json_str) ==
    ReSub(ReSub(ReSub(json_str, <<",", "}">>, <<"}">>),
                <<",", "]">>, <<"]">>),
          <<",", ")">>, <<")">>)

\* the balance repair of _repair_json_aggressive
BalanceRepair(json_str) ==
    LET missing_braces == Count(json_str, "{") - Count(json_str, "}")
        missing_brackets == Count(json_str, "[") - Count(json_str, "]")
        last_bracket == RFind(json_str, "]")
    IN  IF missing_braces > 0 \/ missing_brackets > 0
        THEN IF last_bracket > 1
             THEN LET before_final == SubSeq(json_str, 1, last_bracket - 1)
                      open_before == Count(before_final, "{")
                                       - Count(before_final, "}")
                      bracket_before == Count(before_final, "[")
                                          - Count(before_final, "]")
                      closers == Repeat("]", bracket_before)
                                   \o Repeat("}", open_before)
                  IN  before_final \o closers
                        \o SubSeq(json_str, last_bracket, Len(json_str))
             ELSE RStripSet(json_str, WS) \o Repeat("]", missing_brackets)
                    \o Repeat("}", missing_braces)
        ELSE json_str

\* one line of the trailing-content truncation
FixLine(line) ==
    LET bracket_pos == RFind(line, "]")
        after_bracket == Strip(SubSeq(line, bracket_pos + 1, Len(line)))
    IN  IF Count(line, "]") = 1 /\ bracket_pos > 1
           /\ after_bracket # <<>> /\ Head(after_bracket) # ","
        THEN SubSeq(line, 1, bracket_pos)
        ELSE line

RECURSIVE FixLines(_)
\* split on newlines, fix every line, join with newlines
FixLines(s) ==
    LET nl == Find(s, "\n")
    IN  IF nl = 0 THEN FixLine(s)
        ELSE FixLine(SubSeq(s, 1, nl - 1)) \o <<"\n">>
               \o FixLines(SubSeq(s, nl + 1, Len(s)))

\* the substitutions of _repair_json_aggressive that come before the
\* balance repair (lines 472-486)
BeforeBalance(json_str) ==
    LET s1 == ReSub(ReSub(json_str, <<",", "}">>, <<"}">>),
                    <<",", "]">>, <<"]">>)
        s2 == ReSub(s1, <<"}", "}", "}">>, <<"}", "}", "}">>)
        s3 == ReSub(s2, <<"}", "}", "]">>, <<"}", "]">>)
    IN  ReSub(s3, <<"]", "}", "}", "}", ",">>,
              <<"]", " ", "}", " ", "}", " ", "}", " ", "}", ",">>)

\* WeatherAgent._repair_json_aggressive
_repair_json_aggressive(json_str) ==
    LET s4 == BeforeBalance(json_str)
        s5 == BalanceRepair(s4)
        s6 == FixLines(s5)
    IN  ReSub(ReSub(s6, <<",", "}">>, <<"}">>), <<",", "]">>, <<"]">>)

\* ---------------------------------------------------------------------
\* json.loads.  A JSON value is a record [t, v]: t is "str", "num", "lit",
\* "arr" or "obj"; v is the literal's segments, the sequence of elements,
\* or the sequence of members [k, v] in the order of the text.
\* ---------------------------------------------------------------------

\* quoted string literals without special characters
StrLits == {"\"deleteSurface\"", "\"beginRendering\"", "\"surfaceId\"",
            "\"root\"", "\"s\"", "\"r\"", "\"note\""}

NumLits == {"1"}

WordLits == {"true", "false", "null"}

ParseFail == [ok |-> FALSE, pos |-> 0, val |-> [t |-> "none", v |-> <<>>]]

RECURSIVE ParseValue(_, _)
RECURSIVE ParseElems(_, _, _)
RECURSIVE ParseMembers(_, _, _)

\* a value starting at position i (whitespace already skipped)
ParseValue(s, i) ==
    IF i > Len(s) THEN ParseFail
    ELSE IF s[i] \in StrLits
    THEN [ok |-> TRUE, pos |-> i + 1, val |-> [t |-> "str", v |-> <<s[i]>>]]
    ELSE IF s[i] \in NumLits
    THEN [ok |-> TRUE, pos |-> i + 1, val |-> [t |-> "num", v |-> <<s[i]>>]]
    ELSE IF s[i] \in WordLits
    THEN [ok |-> TRUE, pos |-> i + 1, val |-> [t |-> "lit", v |-> <<s[i]>>]]
    ELSE IF s[i] = "\""
    THEN LET j == IndexFrom(s, "\"", i + 1)
         IN  IF j = 0 \/ Count(SubSeq(s, i, j), "\n") > 0 THEN ParseFail
             ELSE [ok |-> TRUE, pos |-> j + 1,
                   val |-> [t |-> "str", v |-> SubSeq(s, i, j)]]
    ELSE IF s[i] = "["
    THEN LET j == SkipWs(s, i + 1)
         IN  IF j <= Len(s) /\ s[j] = "]"
             THEN [ok |-> TRUE, pos |-> j + 1,
                   val |-> [t |-> "arr", v |-> <<>>]]
             ELSE ParseElems(s, j, <<>>)
    ELSE IF s[i] = "{"
    THEN LET j == SkipWs(s, i + 1)
         IN  IF j <= Len(s) /\ s[j] = "}"
             THEN [ok |-> TRUE, pos |-> j + 1,
                   val |-> [t |-> "obj", v |-> <<>>]]
             ELSE ParseMembers(s, j, <<>>)
    ELSE ParseFail

\* the elements of an array from position i on, acc holding the earlier ones
ParseElems(s, i, acc) ==
    LET r == ParseValue(s, i)
        j == SkipWs(s, r.pos)
    IN  IF ~r.ok \/ j > Len(s) THEN ParseFail
        ELSE IF s[j] = "]"
        THEN [ok |-> TRUE, pos |-> j + 1,
              val |-> [t |-> "arr", v |-> Append(acc, r.val)]]
        ELSE IF s[j] = ","
        THEN ParseElems(s, SkipWs(s, j + 1), Append(acc, r.val))
        ELSE ParseFail

\* the members of an object from position i on
ParseMembers(s, i, acc) ==
    LET k == ParseValue(s, i)
        c == SkipWs(s, k.pos)
    IN  IF i > Len(s) \/ ~(s[i] \in StrLits \/ s[i] = "\"") \/ ~k.ok
           \/ c > Len(s) \/ s[c] # ":"
        THEN ParseFail
        ELSE LET r == ParseValue(s, SkipWs(s, c + 1))
                 j == SkipWs(s, r.pos)
                 m == [k |-> k.val.v, v |-> r.val]
             IN  IF ~r.ok \/ j > Len(s) THEN ParseFail
                 ELSE IF s[j] = "}"
                 THEN [ok |-> TRUE, pos |-> j + 1,
                       val |-> [t |-> "obj", v |-> Append(acc, m)]]
                 ELSE IF s[j] = ","
                 THEN ParseMembers(s, SkipWs(s, j + 1), Append(acc, m))
                 ELSE ParseFail

\* json.loads(s): ok is FALSE where Python raises JSONDecodeError
Loads(s) ==
    LET r == ParseValue(s, SkipWs(s, 1))
    IN  IF r.ok /\ SkipWs(s, r.pos) > Len(s) THEN r ELSE ParseFail

\* ---------------------------------------------------------------------
\* Directive schema
\* ---------------------------------------------------------------------

HasKey(obj, key) == \E n \in 1..Len(obj.v) : obj.v[n].k = <<key>>

\* dict lookup: the last member with the key wins, as in json.loads
GetKey(obj, key) ==
    LET n == CHOOSE n \in 1..Len(obj.v) :
                 /\ obj.v[n].k = <<key>>
                 /\ \A m \in (n + 1)..Len(obj.v) : obj.v[m].k # <<key>>
    IN  obj.v[n].v

\* a sub-schema {"type": "object", "required": req} whose listed
\* properties are all of type string
ObjWithStrings(val, req, props) ==
    /\ val.t = "obj"
    /\ \A key \in req : HasKey(val, key)
    /\ \A key \in props : HasKey(val, key) => GetKey(val, key).t = "str"

\* one message against A2UI_SCHEMA: type object; each of the four action
\* properties is checked only when present; nothing is required and other
\* keys are allowed.  The replies of the model use the keys "beginRendering"
\* and "deleteSurface" only, so the sub-schemas of "surfaceUpdate" and
\* "dataModelUpdate" never apply
ValidMessage(val) ==
    /\ val.t = "obj"
    /\ HasKey(val, "\"beginRendering\"") =>
           ObjWithStrings(GetKey(val, "\"beginRendering\""),
                          {"\"root\"", "\"surfaceId\""},
                          {"\"root\"", "\"surfaceId\""})
    /\ HasKey(val, "\"deleteSurface\"") =>
           ObjWithStrings(GetKey(val, "\"deleteSurface\""),
                          {"\"surfaceId\""}, {"\"surfaceId\""})

\* jsonschema.validate(instance, a2ui_schema_object): an array of messages
SchemaValid(val) ==
    /\ val.t = "arr"
    /\ \A n \in 1..Len(val.v) : ValidMessage(val.v[n])

\* ---------------------------------------------------------------------
\* Bounds and the replies the generation collaborator may give
\* ---------------------------------------------------------------------

\* intermediate (non-final) events of the generation calls of one turn
MaxEvents == 1

\* conversation identifiers
NumConvs == 1

ConvIds == 1..NumConvs

\* the absent value (Python None) of a text
None == <<"<None>">>

\* [{"deleteSurface": {"surfaceId": "s"}}] and its variations
DS == <<"{", "\"deleteSurface\"", ":", "{", "\"surfaceId\"", ":", "\"s\"",
        "}", "}">>

BR == <<"{", "\"beginRendering\"", ":", "{", "\"surfaceId\"", ":", "\"s\"",
        ",", "\"root\"", ":", "\"r\"", "}", "}">>

Replies ==
    { <<"Hello">>,
      <<"Hello", DELIM, " ">>,
      <<"Hello", DELIM, TICKS, "json", "\n", TICKS>>,
      <<"Hello", DELIM, "[">> \o DS \o <<"]">>,
      <<"Hello", DELIM, "\n", "[">> \o BR \o <<",", " ">> \o DS \o <<"]">>,
      <<"Hello", DELIM, "[">> \o DS \o <<",", "]">>,
      <<DELIM, TICKS, "json", "\n", "[">> \o DS \o <<"]", "\n", TICKS>>,
      <<"Hello", DELIM, TICKS, "\n", "[">> \o DS \o <<"]", "\n", TICKS>>,
      <<"Hello", DELIM, "[">> \o DS \o <<"}", "]">>,
      <<"Hello", DELIM, "[", "{", "}", "]", " ", "\"note\"">>,
      <<"Hello", DELIM, "[", ":">>,
      <<"Hello", DELIM, "[", "{", "\"deleteSurface\"", ":", "{", "}", "}",
        "]">>,
      <<"Hello", DELIM>> \o DS }

\* what a generation call can end with: a final reply, or no content
GenResults == Replies \cup {None}

\* ---------------------------------------------------------------------
\* Fixed texts of the program
\* ---------------------------------------------------------------------

ExhaustedText ==
    <<"I'm sorry, I'm having trouble generating the interface for that request right now. Please try again in a moment.">>

NoResponseText ==
    <<"I'm sorry, I encountered an error and couldn't process your request.">>

ConfigErrorText ==
    <<"I'm sorry, I'm facing an internal configuration error with my UI components. Please contact support.">>

ConfirmationDefaultText == <<"I'll show you the weather options.">>

ConfirmationErrorText == <<"I encountered an error: ", "exception">>

RejectText == <<"No problem! Let me know if you change your mind.">>

TwoNoResponseText == <<"Sorry, I didn't get a response. Please try again.">>

WeatherNoResponseText ==
    <<"I'm sorry, I didn't receive a response. Please try again.">>

TwoErrorText == <<"Error: ", "exception">>

WeatherErrorText ==
    <<"I encountered an error while processing your request. Please try again. Error: ",
      "exception">>

\* diagnostics: the messages of the exceptions the validation raises
DiagDelimiter == "Delimiter '---a2ui_JSON---' not found."

DiagEmptyJson == "JSON part is empty."

DiagEmptyCleaned == "Cleaned JSON string is empty."

DiagParse == "JSONDecodeError"

DiagSchema == "ValidationError"

DiagNoResponse == "I received no response. Please try again. "

\* a retry that resends the request as it was
EmptyRetryPromptPlain(query) == query

\* the corrective prompt after an empty generation (lines 322-325)
EmptyRetryPrompt(query) ==
    <<DiagNoResponse, "Please retry the original request: '">>
      \o query \o <<"'">>

\* a corrective prompt without the original request
CorrectivePromptNoRequest(error_message, query) ==
    <<"Your previous response was invalid. ">> \o error_message

\* the corrective prompt after a validation failure (lines 441-447)
CorrectivePrompt(error_message, query) ==
    <<"Your previous response was invalid. ">> \o error_message
      \o <<" You MUST generate a valid response that strictly follows the A2UI JSON SCHEMA. The response MUST be a JSON list of A2UI messages. Ensure the response is split by '---a2ui_JSON---' and the JSON part is well-formed. ",
           "Please retry the original request: '">>
      \o query \o <<"'">>

\* error_message = f"Validation failed: {e}."
ErrorMessage(diag) == <<"Validation failed: ", diag, ".">>

\* ---------------------------------------------------------------------
\* Extraction, repair, parsing and schema validation of one reply
\* (WeatherAgent.stream, the try block of the structured-output mode)
\* ---------------------------------------------------------------------

\* what lstrip("```json") leaves of a segment that starts with one of the
\* characters of the set: the word null loses its n
StripFencePrefix(seg) == IF seg = "null" THEN "ull" ELSE seg

\* s.lstrip("```json"): a strip of the characters `, j, s, o, n
LStripFence(s) ==
    LET t == LStripSet(s, FenceChars)
    IN  IF t # <<>> THEN <<StripFencePrefix(Head(t))>> \o Tail(t) ELSE t

\* json_string.strip().lstrip("```json").rstrip("```").strip()
CleanPayload(json_string) ==
    Strip(RStripSet(LStripFence(Strip(json_string)), BackTicks))

\* the extraction of the payload (lines 337-353): the diagnostic of the
\* exception it raises, or "" and the cleaned payload
Extract(final_response_content) ==
    LET json_string == SplitJson(final_response_content)
        cleaned == CleanPayload(json_string)
        Fail(d) == [diag |-> d, payload |-> <<>>]
    IN  IF ~HasDelimiter(final_response_content) THEN Fail(DiagDelimiter)
        ELSE IF Strip(json_string) = <<>> THEN Fail(DiagEmptyJson)
        ELSE IF cleaned = <<>> THEN Fail(DiagEmptyCleaned)
        ELSE [diag |-> "", payload |-> cleaned]

\* json.loads after the normal repair and, if that fails, once more after
\* the aggressive repair of the repaired text
ParseRepaired(json_string_cleaned) ==
    LET repaired == _repair_json(json_string_cleaned)
        first == Loads(repaired)
    IN  IF first.ok THEN first
        ELSE Loads(_repair_json_aggressive(repaired))

\* a validation without the jsonschema.validate call
ValidateReplyNoSchema(final_response_content) ==
    LET json_string == SplitJson(final_response_content)
        cleaned == CleanPayload(json_string)
        parsed == ParseRepaired(cleaned)
        Fail(d) == [diag |-> d, batch |-> [t |-> "none", v |-> <<>>]]
    IN  IF ~HasDelimiter(final_response_content) THEN Fail(DiagDelimiter)
        ELSE IF Strip(json_string) = <<>> THEN Fail(DiagEmptyJson)
        ELSE IF cleaned = <<>> THEN Fail(DiagEmptyCleaned)
        ELSE IF ~parsed.ok THEN Fail(DiagParse)
        ELSE [diag |-> "", batch |-> parsed.val]

\* the outcome of validating one reply: diag is "" when the reply is
\* valid, else the diagnostic; batch is the parsed value when valid
ValidateReply(final_response_content) ==
    LET json_string == SplitJson(final_response_content)
        cleaned == CleanPayload(json_string)
        parsed == ParseRepaired(cleaned)
        Fail(d) == [diag |-> d, batch |-> [t |-> "none", v |-> <<>>]]
    IN  IF ~HasDelimiter(final_response_content) THEN Fail(DiagDelimiter)
        ELSE IF Strip(json_string) = <<>> THEN Fail(DiagEmptyJson)
        ELSE IF cleaned = <<>> THEN Fail(DiagEmptyCleaned)
        ELSE IF ~parsed.ok THEN Fail(DiagParse)
        ELSE IF ~SchemaValid(parsed.val) THEN Fail(DiagSchema)
        ELSE [diag |-> "", batch |-> parsed.val]

\* ---------------------------------------------------------------------
\* Outbound parts built by the dispatch routers
\* ---------------------------------------------------------------------

NoData == [t |-> "none", v |-> <<>>]

TextPart(text) == [kind |-> "text", text |-> text, data |-> NoData]

\* create_a2ui_part
DataPart(json_data) == [kind |-> "data", text |-> <<>>, data |-> json_data]

\* one DataPart per element of a list, one DataPart for any other value
DataParts(json_data) ==
    IF json_data.t = "arr"
    THEN [n \in 1..Len(json_data.v) |-> DataPart(json_data.v[n])]
    ELSE <<DataPart(json_data)>>

\* re.sub(r'^```json\s*', '', s)
DropFenceOpen(s) ==
    IF Len(s) >= 2 /\ s[1] = TICKS /\ s[2] = "json"
    THEN SubSeq(s, SkipWs(s, 3), Len(s))
    ELSE s

\* re.sub(r'\s*```$', '', s)
DropFenceClose(s) ==
    IF s # <<>> /\ s[Len(s)] = TICKS
    THEN RStripSet(SubSeq(s, 1, Len(s) - 1), WS)
    ELSE s

\* the payload cleaning of TwoAgentExecutor.execute (lines 410-413)
TwoCleanPayload(json_string) ==
    Strip(DropFenceClose(DropFenceOpen(Strip(json_string))))

\* final_parts of a reply (both routers; clean is the router's cleaning)
FinalParts(agent_response_content, two) ==
    LET text_content == SplitText(agent_response_content)
        json_string == SplitJson(agent_response_content)
        cleaned == IF two THEN TwoCleanPayload(json_string)
                   ELSE CleanPayload(json_string)
        json_data == Loads(cleaned)
    IN  IF HasDelimiter(agent_response_content)
        THEN (IF Strip(text_content) # <<>>
              THEN <<TextPart(Strip(text_content))>> ELSE <<>>)
             \o (IF Strip(json_string) = <<>> THEN <<>>
                 ELSE IF json_data.ok THEN DataParts(json_data.val)
                 ELSE <<TextPart(json_string)>>)
        ELSE <<TextPart(Strip(agent_response_content))>>

\* the three directives of _generate_confirmation_ui: beginRendering has
\* no argument in it, surfaceUpdate carries the arguments in the context of
\* the confirm button (confirmWeather), dataModelUpdate carries them in its
\* contents, with the form defaults forecast on, alerts off
_generate_confirmation_ui(location, latitude, longitude, display_name, state_code) ==
    << [t |-> "confirmation_ui",
        v |-> <<"beginRendering", "weather-confirmation">>],
       [t |-> "confirmation_ui",
        v |-> <<"surfaceUpdate", "rejectWeather", "confirmWeather", location,
                latitude, longitude, display_name, state_code,
                "{path: /form/forecastSelected}",
                "{path: /form/alertsSelected}">>],
       [t |-> "confirmation_ui",
        v |-> <<"dataModelUpdate", display_name, location, latitude,
                longitude, state_code, "forecastSelected: True",
                "alertsSelected: False">>] >>

\* the text of the confirmation turn
ConfirmationText(confirmation_data) ==
    <<"What information would you like to get for ",
      confirmation_data.display_name, "?">>

\* a confirmation turn that asks the question without the directives
ConfirmationPartsTextOnly(confirmation_data) ==
    <<TextPart(ConfirmationText(confirmation_data))>>

\* the outbound parts of a pending confirmation request
ConfirmationParts(confirmation_data) ==
    LET confirmation_ui ==
            _generate_confirmation_ui(confirmation_data.location,
                                      confirmation_data.latitude,
                                      confirmation_data.longitude,
                                      confirmation_data.display_name,
                                      confirmation_data.state_code)
    IN  <<TextPart(ConfirmationText(confirmation_data))>>
          \o [n \in 1..Len(confirmation_ui) |-> DataPart(confirmation_ui[n])]

Status(state, final, parts) ==
    [state |-> state, final |-> final, parts |-> parts]

\* ---------------------------------------------------------------------
\* Inbound turns
\* ---------------------------------------------------------------------

Locations == {"Boston"}

\* the locations the model passes to show_weather_confirmation in the
\* specification of the confirmation hand-off
ToolLocations == {"Boston", "Austin"}

\* no pending_weather_confirmation in the session state
NoRequest ==
    [location |-> "none", latitude |-> "none", longitude |-> "none",
     display_name |-> "none", state_code |-> "none"]

\* the request show_weather_confirmation stores for a location
Request(location) ==
    [location |-> location, latitude |-> "42.36", longitude |-> "-71.06",
     display_name |-> "Boston, Massachusetts", state_code |-> "MA"]

\* no inbound message is being parsed
NoMessage ==
    [user_action |-> "none", text |-> <<>>, act |-> "none",
     location |-> "none", fraw |-> "absent", araw |-> "absent"]

\* the text of the inbound turn (context.get_user_input()); <<>> is empty
Texts == {<<>>, <<"What's the weather in Boston?">>}

\* action names of a userAction payload the WeatherAgentExecutor receives
\* ("none" is a turn without one); "submit_form" is a name it does not know
WeatherActionNames == {"confirmAlerts", "rejectAlerts",
                       "confirm_weather_selection", "toggle_option",
                       "submit_form"}

\* action names of a userAction payload the TwoAgentExecutor receives
TwoActionNames == {"confirmWeather", "rejectWeather", "toggle_option",
                   "submit_form"}

\* the forms in which a selection arrives in the action's context
RawVals == {"absent", "True", "False", "'true'", "'YES'", "'1'", "'no'",
            "{literalBoolean: True}", "{literalBoolean: False}",
            "{path: /form/x}", "{}"}

\* the inbound turns.  user_action tells whether the message has a data
\* part with a "userAction" entry: "absent", "empty" (the entry is {}), or
\* "named" (the entry has an action name and a context).  A turn without a
\* named action carries a text; the context of a named action carries the
\* location and, for the router's confirm action, the two selections
Inbound(ActionNames, confirm) ==
    {[user_action |-> u, text |-> t, act |-> "none", location |-> "Boston",
      fraw |-> "absent", araw |-> "absent"] :
        u \in {"absent", "empty"}, t \in Texts}
    \cup {[user_action |-> "named", text |-> <<>>, act |-> a,
           location |-> "Boston", fraw |-> "absent", araw |-> "absent"] :
             a \in ActionNames \ {confirm}}
    \cup {[user_action |-> "named", text |-> <<>>, act |-> confirm,
           location |-> "Boston", fraw |-> f, araw |-> r] :
             f \in RawVals, r \in RawVals}

\* str.lower() of the string forms
Lower(raw) == IF raw = "'YES'" THEN "'yes'" ELSE raw

\* a decoding that knows the string "true" only
WeatherDecodeTrueOnly(raw) ==
    CASE raw = "{literalBoolean: True}" -> TRUE
      [] raw \in {"{literalBoolean: False}", "{path: /form/x}", "{}"} -> FALSE
      [] raw = "True" -> TRUE
      [] raw \in {"False", "absent"} -> FALSE
      [] OTHER -> Lower(raw) = "'true'"

\* WeatherAgentExecutor.execute, lines 313-345
WeatherDecode(raw) ==
    CASE raw = "{literalBoolean: True}" -> TRUE
      [] raw \in {"{literalBoolean: False}", "{path: /form/x}", "{}"} -> FALSE
      [] raw = "True" -> TRUE
      [] raw \in {"False", "absent"} -> FALSE
      [] OTHER -> Lower(raw) \in {"'true'", "'1'", "'yes'"}

\* TwoAgentExecutor.execute, lines 245-266
TwoDecode(raw) ==
    CASE raw \in {"{literalBoolean: True}", "{path: /form/x}"} -> TRUE
      [] raw \in {"{literalBoolean: False}", "{}"} -> FALSE
      [] raw = "True" -> TRUE
      [] raw \in {"False", "absent"} -> FALSE
      [] OTHER -> Lower(raw) = "'true'"

\* selected_options without a default
SelectedOptionsNoDefault(forecast_selected, alerts_selected) ==
    (IF forecast_selected THEN <<"forecast">> ELSE <<>>)
      \o (IF alerts_selected THEN <<"alerts">> ELSE <<>>)

\* selected_options with the default-to-forecast rule
SelectedOptions(forecast_selected, alerts_selected) ==
    IF ~forecast_selected /\ ~alerts_selected THEN <<"forecast">>
    ELSE (IF forecast_selected THEN <<"forecast">> ELSE <<>>)
           \o (IF alerts_selected THEN <<"alerts">> ELSE <<>>)

InSeq(x, s) == \E n \in 1..Len(s) : s[n] = x

\* an instruction that always lists both retrieval calls
WeatherInstructionBothCalls(location, selected_options) ==
    <<"=== THIS IS A CONFIRMATION MESSAGE ===", location,
      "Selected Options: ">> \o selected_options
      \o <<"   - Call get_forecast(", location, ")">>
      \o <<"   - Call get_alerts(", location, ")">>
      \o <<"4. Display the results. Fetch the data now.">>

\* the synthetic instruction of WeatherAgentExecutor (lines 363-391)
WeatherInstruction(location, selected_options) ==
    <<"=== THIS IS A CONFIRMATION MESSAGE ===", location,
      "Selected Options: ">> \o selected_options
      \o (IF InSeq("forecast", selected_options)
          THEN <<"   - Call get_forecast(", location, ")">> ELSE <<>>)
      \o (IF InSeq("alerts", selected_options)
          THEN <<"   - Call get_alerts(", location, ")">> ELSE <<>>)
      \o <<"4. Display the results. Fetch the data now.">>

\* the synthetic instruction of TwoAgentExecutor (lines 280-296)
TwoInstruction(location, selected_options) ==
    <<"The user has confirmed they want weather information for ", location,
      "User selected: ">> \o selected_options \o <<"YOU MUST:">>
      \o (IF InSeq("forecast", selected_options)
          THEN <<"1. Call get_forecast(", location, ")">> ELSE <<>>)
      \o (IF InSeq("alerts", selected_options)
          THEN <<"2. Call get_alerts(", location, ")">> ELSE <<>>)
      \o <<"Then display ALL the data you receive using A2UI JSON format.">>

\* the query WeatherAgentExecutor builds for a userAction (lines 297-433);
\* <<>> for toggle_option, which returns before any query is set; the
\* context of confirm_weather_selection carries no selected_options, so the
\* default "forecast, alerts" is used
WeatherActionQuery(act, location, fraw, araw) ==
    CASE act = "confirmAlerts" ->
           WeatherInstruction(location,
               SelectedOptions(WeatherDecode(fraw), WeatherDecode(araw)))
      [] act = "rejectAlerts" ->
           <<"User rejected weather query for ", location,
             ". No weather data will be fetched.">>
      [] act = "confirm_weather_selection" ->
           <<"User confirmed weather query for ", location,
             "Selected options: ", "forecast, alerts",
             ". Please fetch the weather data.">>
      [] act = "toggle_option" -> <<>>
      [] OTHER -> <<"User submitted an event: ", act, " with data: ",
                    location>>

\* a query that describes every other action by the same text
TwoActionQueryUnnamed(act, location, fraw, araw) ==
    CASE act = "confirmWeather" ->
           TwoInstruction(location,
               SelectedOptions(TwoDecode(fraw), TwoDecode(araw)))
      [] OTHER -> <<"User action: ">>

\* the query TwoAgentExecutor builds for a userAction (lines 230-309);
\* rejectWeather returns before any query is used
TwoActionQuery(act, location, fraw, araw) ==
    CASE act = "confirmWeather" ->
           TwoInstruction(location,
               SelectedOptions(TwoDecode(fraw), TwoDecode(araw)))
      [] OTHER -> <<"User action: ", act>>

\* every agent validates its replies
AgentAlwaysUsesUi(ag) == TRUE

\* the use_ui flag of the agent instances (WeatherAgentExecutor.__init__,
\* TwoAgentExecutor.__init__)
AgentUsesUi(ag) == ag \in {"ui_agent", "weather_agent"}

\* WeatherAgent.__init__: A2UI_SCHEMA parses, so the schema object is set
a2ui_schema_loaded == TRUE

\* a loop that retries twice
max_retries_two == 1 + 1

\* max_retries of WeatherAgent.stream
max_retries == 1

\* ---------------------------------------------------------------------
\* State
\* ---------------------------------------------------------------------

VARIABLES
    pc,                     \* position of the turn: "idle", "parsed",
                            \* "loop", "gen", "yielded", "done"
    executor,               \* "weather" (WeatherAgentExecutor) or "two"
    use_ui,                 \* try_activate_a2ui_extension(context)
    conv,                   \* conversation identifier of the turn
    message,                \* the inbound message while execute reads it
    action,                 \* action name of the inbound userAction, "none"
    forecast_selected,      \* the decoded selections of a confirm action
    alerts_selected,
    selected_options,       \* the retrieval operations of a confirm action
    agent,                  \* the agent instance the router selected, "none"
    query,                  \* the query passed to agent.stream
    attempt,                \* WeatherAgent.stream: attempt
    current_query_text,     \* WeatherAgent.stream: current_query_text
    inflight,               \* generation calls started and not yet ended
    events,                 \* intermediate events of the turn so far
    calls,                  \* generation calls of the turn: attempt, prompt
    outcomes,               \* per ended generation call: result, diagnostic
    agent_response_content, \* the final content the agent yielded, or None
    emitted,                \* status updates of the turn, in order
    pending,                \* per conversation:
                            \* pending_weather_confirmation in the
                            \* confirmation agent's session, or NoRequest
    awaiting,               \* per conversation: a confirmation turn was
                            \* emitted and no confirm or reject action has
                            \* arrived since (AwaitingConfirmation)
    displaced,              \* location of the request that was pending
    requested,              \* the tool was called during the turn
                            \* when the tool was last called with another
                            \* location in this turn, or "none"
    reply,                  \* a reply under validation by itself
    step,                   \* how far its validation has got
    extracted,              \* diagnostic and payload of the extraction
    texts,                  \* results of the repairs applied in turn
    applied,                \* names of the repairs applied in turn
    parsed_json_data,       \* result of parsing the repaired payload
    is_valid,               \* result of the schema validation
    sessions,               \* the sessions of each agent's session service
    obtained,               \* the session the last stream call obtained
    handoffs                \* per identifier, the turn of the Gatherer that
                            \* is under way for it

vars == <<pc, executor, use_ui, conv, message, action, forecast_selected,
          alerts_selected, selected_options, agent, query, attempt,
          current_query_text, inflight, events, calls, outcomes,
          agent_response_content, emitted, pending, awaiting, displaced, requested,
          reply, step, extracted, texts, applied, parsed_json_data,
          is_valid, sessions, obtained, handoffs>>

\* the session stores taken by themselves
sessionVars == <<sessions, obtained, handoffs>>

\* the state of the validation of one reply taken by itself
payloadVars == <<reply, step, extracted, texts, applied,
                 parsed_json_data, is_valid>>

turnVars == <<executor, use_ui, conv, message, action, forecast_selected,
              alerts_selected, selected_options, agent, query>>

\* no reply is under validation by itself
NoReply ==
    /\ reply = None
    /\ step = "none"
    /\ extracted = [diag |-> "", payload |-> <<>>]
    /\ texts = <<>>
    /\ applied = <<>>
    /\ parsed_json_data = ParseFail
    /\ is_valid = FALSE

\* no turn is in progress and no conversation has a request
NoTurn ==
    /\ pc = "idle"
    /\ executor = "weather"
    /\ use_ui = FALSE
    /\ conv = 1
    /\ message = NoMessage
    /\ action = "none"
    /\ forecast_selected = FALSE
    /\ alerts_selected = FALSE
    /\ selected_options = <<>>
    /\ agent = "none"
    /\ query = <<>>
    /\ attempt = 0
    /\ current_query_text = <<>>
    /\ inflight = 0
    /\ events = 0
    /\ calls = <<>>
    /\ outcomes = <<>>
    /\ agent_response_content = None
    /\ emitted = <<>>
    /\ pending = [c \in ConvIds |-> NoRequest]
    /\ awaiting = [c \in ConvIds |-> FALSE]
    /\ displaced = "none"
    /\ requested = FALSE

\* the agents of TwoAgentExecutor: each has an InMemorySessionService of
\* its own (confirmation_agent.py line 115, weather_agent.py line 206)
SessionAgents == {"confirmation_agent", "weather_agent"}

\* no session under an identifier
NoSession == [exists |-> FALSE, pending |-> NoRequest, turns |-> 0]

\* no stream call has obtained a session
NoObtained ==
    [agent |-> "none", sid |-> 1, running |-> FALSE, state |-> NoSession]

\* the identifiers the session services are asked for: those of the turns
\* above and one more
SessionIds == 1..(NumConvs + 1)

\* no turn of the Gatherer is under way for an identifier
NoHandoff == [pos |-> "idle", use_ui |-> FALSE, shown |-> NoRequest]

\* the session services after construction: no session in any of them
NoSessions ==
    /\ sessions = [ag \in SessionAgents |-> [sid \in SessionIds |-> NoSession]]
    /\ obtained = NoObtained
    /\ handoffs = [sid \in SessionIds |-> NoHandoff]

Init == NoTurn /\ NoReply /\ NoSessions

\* the action name execute reads from the message: a userAction entry
\* that is absent or empty ({} is falsy) leaves it unset
ActionOf(m) == IF m.user_action = "named" THEN m.act ELSE "none"

\* a new turn: execute reads the parts of the inbound message m, the
\* action name and, for the confirm action, decodes the two selections
ParseMessage(ex, ui, sid, m, confirm, fsel, asel, updates) ==
    /\ pc = "idle"
    /\ pc' = "parsed"
    /\ executor' = ex
    /\ use_ui' = ui
    /\ conv' = sid
    /\ message' = m
    /\ action' = ActionOf(m)
    /\ forecast_selected' = (ActionOf(m) = confirm /\ fsel)
    /\ alerts_selected' = (ActionOf(m) = confirm /\ asel)
    /\ emitted' = updates
    /\ UNCHANGED <<selected_options, agent, query, attempt,
                   current_query_text, inflight, events, calls, outcomes,
                   agent_response_content, pending, awaiting, displaced, requested,
                   payloadVars, sessionVars>>

\* WeatherAgentExecutor.execute, lines 234-346
WeatherParse(ui, sid, m) ==
    ParseMessage("weather", ui, sid, m, "confirmAlerts",
                 WeatherDecode(m.fraw), WeatherDecode(m.araw), <<>>)

\* TwoAgentExecutor.execute, lines 190-268: the working status is emitted
\* before the message is read
TwoParse(ui, sid, m) ==
    ParseMessage("two", ui, sid, m, "confirmWeather",
                 TwoDecode(m.fraw), TwoDecode(m.araw),
                 <<Status("working", FALSE, <<>>)>>)

\* an early return that reports a completed turn
ReturnEarlyWithStatus(updates) ==
    /\ pc' = "done"
    /\ agent' = "none"
    /\ query' = <<>>
    /\ attempt' = 0
    /\ current_query_text' = <<>>
    /\ calls' = <<>>
    /\ inflight' = 0
    /\ agent_response_content' = None
    /\ emitted' = Append(updates, Status("completed", TRUE, <<>>))

\* the turn ends before any agent is selected
ReturnEarly(updates) ==
    /\ pc' = "done"
    /\ agent' = "none"
    /\ query' = <<>>
    /\ attempt' = 0
    /\ current_query_text' = <<>>
    /\ calls' = <<>>
    /\ inflight' = 0
    /\ agent_response_content' = None
    /\ emitted' = updates

\* agent.stream(q, session_id) up to its first suspension: WeatherAgent
\* enters its retry loop (or yields the configuration error), the
\* ConfirmationAgent starts its single generation call
StartStream(ag, q, updates) ==
    /\ agent' = ag
    /\ query' = q
    /\ current_query_text' = q
    /\ emitted' = updates
    /\ IF ag = "confirmation_agent"
       THEN /\ pc' = "gen"
            /\ attempt' = 1
            /\ inflight' = 1
            /\ calls' = <<[attempt |-> 1, prompt |-> q]>>
            /\ agent_response_content' = None
       ELSE /\ attempt' = 0
            /\ inflight' = 0
            /\ calls' = <<>>
            /\ IF AgentUsesUi(ag) /\ ~a2ui_schema_loaded
               THEN pc' = "yielded" /\ agent_response_content' = ConfigErrorText
               ELSE pc' = "loop" /\ agent_response_content' = None

\* the message has been read: its parts are not used again, and a confirm
\* or reject action answers the confirmation turn of the conversation
Dispatched(confirm, answers) ==
    /\ message' = NoMessage
    /\ selected_options' =
          IF action = confirm
          THEN SelectedOptions(forecast_selected, alerts_selected)
          ELSE <<>>
    /\ awaiting' = IF action \in answers
                   THEN [awaiting EXCEPT ![conv] = FALSE]
                   ELSE awaiting
    /\ UNCHANGED <<executor, use_ui, conv, action, alerts_selected, events,
                   outcomes, pending, displaced, requested, payloadVars, sessionVars>>

\* WeatherAgentExecutor.execute from the selected options (line 348) to the
\* first suspension of agent.stream, or to its early return
WeatherExecute ==
    /\ pc = "parsed"
    /\ executor = "weather"
    /\ Dispatched("confirmAlerts",
                  {"confirmAlerts", "confirm_weather_selection",
                   "rejectAlerts"})
    /\ forecast_selected' =
          (forecast_selected
             \/ (action = "confirmAlerts" /\ ~alerts_selected))
    /\ LET m == message
           q == IF action # "none"
                THEN WeatherActionQuery(action, m.location, m.fraw, m.araw)
                ELSE m.text
       IN  IF action = "toggle_option" \/ q = <<>>
           THEN ReturnEarly(emitted)
           ELSE StartStream(IF use_ui THEN "ui_agent" ELSE "text_agent", q,
                            emitted)

\* a router that sends every turn to the weather agent
SelectAgentAlwaysWeather(m) == "weather_agent"

\* the agent TwoAgentExecutor selects (lines 313-322): the confirmation
\* agent unless the message has a userAction entry that is not empty
SelectAgent(m) ==
    IF m.user_action = "named" THEN "weather_agent"
    ELSE "confirmation_agent"

\* a router that forwards the reject action like any other action
TwoExecuteForwardsReject ==
    /\ pc = "parsed"
    /\ executor = "two"
    /\ Dispatched("confirmWeather", {"confirmWeather", "rejectWeather"})
    /\ UNCHANGED forecast_selected
    /\ LET m == message
       IN  StartStream(SelectAgent(m),
                IF m.user_action = "named"
                THEN TwoActionQuery(action, m.location, m.fraw, m.araw)
                ELSE m.text,
                emitted)

\* TwoAgentExecutor.execute from the selected options (line 270) to the
\* first suspension of agent.stream, or to the return of the reject action
TwoExecute ==
    /\ pc = "parsed"
    /\ executor = "two"
    /\ Dispatched("confirmWeather", {"confirmWeather", "rejectWeather"})
    /\ UNCHANGED forecast_selected
    /\ LET m == message
       IN  IF action = "rejectWeather"
           THEN ReturnEarly(Append(emitted,
                    Status("completed", TRUE, <<TextPart(RejectText)>>)))
           ELSE StartStream(SelectAgent(m),
                    IF m.user_action = "named"
                    THEN TwoActionQuery(action, m.location, m.fraw, m.araw)
                    ELSE m.text,
                    emitted)

\* execute has returned: the locals of the turn are gone, the conversation
\* state stays
ExecuteReturn ==
    /\ pc = "done"
    /\ pc' = "idle"
    /\ executor' = "weather"
    /\ use_ui' = FALSE
    /\ conv' = 1
    /\ message' = NoMessage
    /\ action' = "none"
    /\ forecast_selected' = FALSE
    /\ alerts_selected' = FALSE
    /\ selected_options' = <<>>
    /\ agent' = "none"
    /\ query' = <<>>
    /\ attempt' = 0
    /\ current_query_text' = <<>>
    /\ inflight' = 0
    /\ events' = 0
    /\ calls' = <<>>
    /\ outcomes' = <<>>
    /\ agent_response_content' = None
    /\ emitted' = <<>>
    /\ displaced' = "none"
    /\ requested' = FALSE
    /\ UNCHANGED <<pending, awaiting, payloadVars, sessionVars>>

\* ---------------------------------------------------------------------
\* WeatherAgent.stream: the retry loop
\* ---------------------------------------------------------------------

\* a generation call started without waiting for the previous one
InvokeSpeculative ==
    /\ pc \in {"loop", "gen"}
    /\ attempt <= max_retries
    /\ attempt' = attempt + 1
    /\ pc' = "gen"
    /\ inflight' = inflight + 1
    /\ calls' = Append(calls, [attempt |-> attempt + 1,
                               prompt |-> current_query_text])
    /\ UNCHANGED <<turnVars, current_query_text, events, outcomes,
                   agent_response_content, emitted, pending,
                   awaiting, displaced, requested,
                   payloadVars, sessionVars>>

\* while attempt <= max_retries: attempt += 1 and the generation call
\* (runner.run_async) starts with current_query_text
Invoke ==
    /\ pc = "loop"
    /\ attempt <= max_retries
    /\ attempt' = attempt + 1
    /\ pc' = "gen"
    /\ inflight' = inflight + 1
    /\ calls' = Append(calls, [attempt |-> attempt + 1,
                               prompt |-> current_query_text])
    /\ UNCHANGED <<turnVars, current_query_text, events, outcomes,
                   agent_response_content, emitted, pending,
                   awaiting, displaced, requested,
                   payloadVars, sessionVars>>

\* get_processing_message / the ConfirmationAgent's update text
ProcessingMessage(ag) ==
    IF ag = "confirmation_agent" THEN <<"Processing your request...">>
    ELSE <<"Fetching weather information...">>

\* an intermediate event of the generation call: the agent yields an
\* update and the router emits a working status
GenEvent ==
    /\ pc = "gen"
    /\ events < MaxEvents
    /\ events' = events + 1
    /\ emitted' = Append(emitted,
           Status("working", FALSE, <<TextPart(ProcessingMessage(agent))>>))
    /\ UNCHANGED <<pc, turnVars, attempt, current_query_text, inflight, calls,
                   outcomes, agent_response_content, pending, awaiting, displaced, requested,
                   payloadVars, sessionVars>>

\* what one attempt ended with: the result of the generation call (a
\* reply, None, or Raised) and the diagnostic ("" when accepted)
Outcome(r, d) == [result |-> r, diag |-> d]

\* the generation call raised an exception
Raised == <<"<exception>">>

\* an attempt that accepts every reply
DiagnosticAcceptsAll(ag, final_response_content) == ""

\* is_valid and error_message of one attempt (lines 330-424): the
\* validation runs only in structured-output mode
Diagnostic(ag, final_response_content) ==
    IF AgentUsesUi(ag) THEN ValidateReply(final_response_content).diag
    ELSE ""

\* the rest of one loop iteration once the generation call has ended with
\* the final reply r (None: no content): lines 316-447
WeatherGenFinal(r) ==
    /\ pc = "gen"
    /\ agent # "confirmation_agent"
    /\ inflight' = inflight - 1
    /\ LET final_response_content == IF r = None THEN NoResponseText ELSE r
           diag == Diagnostic(agent, final_response_content)
       IN  IF r = None /\ attempt <= max_retries
           THEN /\ current_query_text' = EmptyRetryPrompt(query)
                /\ outcomes' = Append(outcomes, Outcome(r, DiagNoResponse))
                /\ pc' = "loop"
                /\ UNCHANGED agent_response_content
           ELSE IF diag = ""
           THEN /\ agent_response_content' = final_response_content
                /\ outcomes' = Append(outcomes, Outcome(r, ""))
                /\ pc' = "yielded"
                /\ UNCHANGED current_query_text
           ELSE /\ outcomes' = Append(outcomes, Outcome(r, diag))
                /\ pc' = "loop"
                /\ current_query_text' =
                       IF attempt <= max_retries
                       THEN CorrectivePrompt(ErrorMessage(diag), query)
                       ELSE current_query_text
                /\ UNCHANGED agent_response_content
    /\ UNCHANGED <<turnVars, attempt, events, calls, emitted, pending,
                   awaiting, displaced, requested,
                   payloadVars, sessionVars>>

\* a loop that ends without yielding an item
LoopExitNoItem ==
    /\ pc = "loop"
    /\ attempt > max_retries
    /\ pc' = "yielded"
    /\ UNCHANGED <<turnVars, attempt, current_query_text, inflight, events,
                   calls, outcomes, agent_response_content, emitted, pending,
                   awaiting, displaced, requested, payloadVars, sessionVars>>

\* the loop condition fails: the text-only apology (lines 449-458)
LoopExit ==
    /\ pc = "loop"
    /\ attempt > max_retries
    /\ agent_response_content' = ExhaustedText
    /\ pc' = "yielded"
    /\ UNCHANGED <<turnVars, attempt, current_query_text, inflight, events,
                   calls, outcomes, emitted, pending, awaiting, displaced, requested,
                   payloadVars, sessionVars>>

\* the generation call raises: WeatherAgent.stream has no handler, the
\* exception reaches the except clause of execute
WeatherGenRaise ==
    /\ pc = "gen"
    /\ agent # "confirmation_agent"
    /\ inflight' = inflight - 1
    /\ outcomes' = Append(outcomes, Outcome(Raised, "exception"))
    /\ emitted' = Append(emitted, Status("completed", TRUE,
           <<TextPart(IF executor = "two" THEN TwoErrorText
                      ELSE WeatherErrorText)>>))
    /\ pc' = "done"
    /\ UNCHANGED <<turnVars, attempt, current_query_text, events, calls,
                   agent_response_content, pending, awaiting, displaced, requested,
                   payloadVars, sessionVars>>

\* ---------------------------------------------------------------------
\* ConfirmationAgent.stream
\* ---------------------------------------------------------------------

\* a tool that keeps a request that is still pending
ShowWeatherConfirmationKeepsFirst(location) ==
    /\ pc = "gen"
    /\ agent = "confirmation_agent"
    /\ pending' = IF pending[conv] = NoRequest
                  THEN [pending EXCEPT ![conv] = Request(location)]
                  ELSE pending
    /\ requested' = TRUE
    /\ displaced' = IF pending[conv] \notin {NoRequest, Request(location)}
                    THEN pending[conv].location
                    ELSE IF displaced = location THEN "none"
                    ELSE displaced
    /\ UNCHANGED <<pc, turnVars, attempt, current_query_text, inflight,
                   events, calls, outcomes, agent_response_content, emitted,
                   awaiting, payloadVars, sessionVars>>

\* show_weather_confirmation, called by the model during the generation
\* call of the ConfirmationAgent
ShowWeatherConfirmation(location) ==
    /\ pc = "gen"
    /\ agent = "confirmation_agent"
    /\ pending' = [pending EXCEPT ![conv] = Request(location)]
    /\ requested' = TRUE
    /\ displaced' = IF pending[conv] \notin {NoRequest, Request(location)}
                    THEN pending[conv].location
                    ELSE IF displaced = location THEN "none"
                    ELSE displaced
    /\ UNCHANGED <<pc, turnVars, attempt, current_query_text, inflight,
                   events, calls, outcomes, agent_response_content, emitted,
                   awaiting, payloadVars, sessionVars>>

\* the final response of the single generation call (lines 151-172)
ConfGenFinal(r) ==
    /\ pc = "gen"
    /\ agent = "confirmation_agent"
    /\ inflight' = inflight - 1
    /\ agent_response_content' =
           IF r = None THEN ConfirmationDefaultText ELSE r
    /\ outcomes' = Append(outcomes, Outcome(r, ""))
    /\ pc' = "yielded"
    /\ UNCHANGED <<turnVars, attempt, current_query_text, events, calls,
                   emitted, pending, awaiting, displaced, requested,
                   payloadVars, sessionVars>>

\* an exception inside ConfirmationAgent.stream (lines 181-187)
ConfGenRaise ==
    /\ pc = "gen"
    /\ agent = "confirmation_agent"
    /\ inflight' = inflight - 1
    /\ agent_response_content' = ConfirmationErrorText
    /\ outcomes' = Append(outcomes, Outcome(Raised, "exception"))
    /\ pc' = "yielded"
    /\ UNCHANGED <<turnVars, attempt, current_query_text, events, calls,
                   emitted, pending, awaiting, displaced, requested,
                   payloadVars, sessionVars>>

\* ---------------------------------------------------------------------
\* The routers after the agent has yielded its final content
\* ---------------------------------------------------------------------

\* pending_weather_confirmation in the session of the agent: only the
\* ConfirmationAgent has the tool that writes it
PendingOf(ag, sid) ==
    IF ag = "confirmation_agent" THEN pending[sid] ELSE NoRequest

\* a router that reads the request and leaves it in the state
ClearPendingKeeps(ag, sid) == pending

\* del agent_session.state["pending_weather_confirmation"]
ClearPending(ag, sid) ==
    IF ag = "confirmation_agent" THEN [pending EXCEPT ![sid] = NoRequest]
    ELSE pending

\* "temperature" in content.lower() or "forecast" in content.lower()
MentionsWeatherData(content) ==
    InSeq("temperature", content) \/ InSeq("forecast", content)

\* every turn of WeatherAgentExecutor ends completed
final_state_completed(act) == "completed"

\* final_state (lines 530-534): the task is completed after a confirm or
\* reject action and waits for input after every other turn
final_state(act) ==
    IF act \in {"confirmAlerts", "confirm_weather_selection", "rejectAlerts"}
    THEN "completed" ELSE "input-required"

\* a router that marks every update final
IsFinalAlways(state) == TRUE

\* final=(final_state == TaskState.completed), line 592
IsFinal(state) == state = "completed"

\* WeatherAgentExecutor.execute, lines 469-593; fault: the session access
\* of the confirmation check raises
WeatherFinish(fault) ==
    /\ pc = "yielded"
    /\ executor = "weather"
    /\ LET content == agent_response_content
           checks == use_ui /\ content # <<>> /\ ~fault
           found == checks /\ PendingOf(agent, conv) # NoRequest
       IN  /\ pending' = IF found THEN ClearPending(agent, conv) ELSE pending
           /\ awaiting' = IF found /\ ~MentionsWeatherData(content)
                          THEN [awaiting EXCEPT ![conv] = TRUE]
                          ELSE awaiting
           /\ emitted' =
                IF found /\ ~MentionsWeatherData(content)
                THEN Append(emitted, Status("input-required", FALSE,
                         ConfirmationParts(PendingOf(agent, conv))))
                ELSE IF content = <<>>
                THEN Append(emitted, Status("completed", TRUE,
                         <<TextPart(WeatherNoResponseText)>>))
                ELSE IF HasDelimiter(content)
                THEN emitted
                ELSE Append(emitted,
                         Status(final_state(action),
                                IsFinal(final_state(action)),
                                FinalParts(content, FALSE)))
    /\ pc' = "done"
    /\ UNCHANGED <<turnVars, attempt, current_query_text, inflight, events,
                   calls, outcomes, agent_response_content, displaced, requested,
                   payloadVars, sessionVars>>

\* a router that goes on to the normal response after the confirmation
\* turn
TwoFinishNoReturn(fault) ==
    /\ pc = "yielded"
    /\ executor = "two"
    /\ LET content == agent_response_content
           checks == use_ui /\ content # <<>>
                       /\ agent = "confirmation_agent" /\ ~fault
           found == checks /\ PendingOf(agent, conv) # NoRequest
           shown == IF found
                    THEN Append(emitted, Status("input-required", FALSE,
                             ConfirmationParts(PendingOf(agent, conv))))
                    ELSE emitted
       IN  /\ pending' = IF found THEN ClearPending(agent, conv) ELSE pending
           /\ awaiting' = IF found THEN [awaiting EXCEPT ![conv] = TRUE]
                          ELSE awaiting
           /\ emitted' =
                IF content = <<>>
                THEN Append(shown, Status("completed", TRUE,
                         <<TextPart(TwoNoResponseText)>>))
                ELSE Append(shown, Status("completed", TRUE,
                         FinalParts(content, TRUE)))
    /\ pc' = "done"
    /\ UNCHANGED <<turnVars, attempt, current_query_text, inflight, events,
                   calls, outcomes, agent_response_content, displaced, requested,
                   payloadVars, sessionVars>>

\* TwoAgentExecutor.execute, lines 338-433
TwoFinish(fault) ==
    /\ pc = "yielded"
    /\ executor = "two"
    /\ LET content == agent_response_content
           checks == use_ui /\ content # <<>>
                       /\ agent = "confirmation_agent" /\ ~fault
           found == checks /\ PendingOf(agent, conv) # NoRequest
       IN  /\ pending' = IF found THEN ClearPending(agent, conv) ELSE pending
           /\ awaiting' = IF found THEN [awaiting EXCEPT ![conv] = TRUE]
                          ELSE awaiting
           /\ emitted' =
                IF found
                THEN Append(emitted, Status("input-required", FALSE,
                         ConfirmationParts(PendingOf(agent, conv))))
                ELSE IF content = <<>>
                THEN Append(emitted, Status("completed", TRUE,
                         <<TextPart(TwoNoResponseText)>>))
                ELSE Append(emitted, Status("completed", TRUE,
                         FinalParts(content, TRUE)))
    /\ pc' = "done"
    /\ UNCHANGED <<turnVars, attempt, current_query_text, inflight, events,
                   calls, outcomes, agent_response_content, displaced, requested,
                   payloadVars, sessionVars>>

\* ---------------------------------------------------------------------
\* Specification
\* ---------------------------------------------------------------------

Next ==
    \/ /\ pc = "idle"
       /\ \E ui \in BOOLEAN, sid \in ConvIds,
             m \in Inbound(WeatherActionNames, "confirmAlerts") :
               WeatherParse(ui, sid, m)
    \/ /\ pc = "idle"
       /\ \E ui \in BOOLEAN, sid \in ConvIds,
             m \in Inbound(TwoActionNames, "confirmWeather") :
               TwoParse(ui, sid, m)
    \/ WeatherExecute
    \/ TwoExecute
    \/ ExecuteReturn
    \/ Invoke
    \/ GenEvent
    \/ \E r \in GenResults : WeatherGenFinal(r)
    \/ LoopExit
    \/ WeatherGenRaise
    \/ \E location \in Locations : ShowWeatherConfirmation(location)
    \/ \E r \in GenResults : ConfGenFinal(r)
    \/ ConfGenRaise
    \/ \E fault \in BOOLEAN : WeatherFinish(fault)
    \/ \E fault \in BOOLEAN : TwoFinish(fault)

Spec == Init /\ [][Next]_vars

\* ---------------------------------------------------------------------
\* The confirmation hand-off by itself: fresh-query turns of
\* TwoAgentExecutor, in which the model may call show_weather_confirmation
\* with different locations
\* ---------------------------------------------------------------------

FreshQueries ==
    {m \in Inbound(TwoActionNames, "confirmWeather") :
        m.user_action = "absent"}

HandoffNext ==
    \/ /\ pc = "idle"
       /\ \E ui \in BOOLEAN, sid \in ConvIds, m \in FreshQueries :
               TwoParse(ui, sid, m)
    \/ TwoExecute
    \/ ExecuteReturn
    \/ GenEvent
    \/ \E location \in ToolLocations : ShowWeatherConfirmation(location)
    \/ \E r \in GenResults : ConfGenFinal(r)
    \/ ConfGenRaise
    \/ \E fault \in BOOLEAN : TwoFinish(fault)

HandoffSpec == Init /\ [][HandoffNext]_vars

\* a step of a stream call other than an intermediate event: the loop
\* goes on and the generation call ends
StreamStep ==
    \/ Invoke
    \/ \E r \in GenResults : WeatherGenFinal(r)
    \/ LoopExit
    \/ WeatherGenRaise
    \/ \E r \in GenResults : ConfGenFinal(r)
    \/ ConfGenRaise

\* the turns of both routers for inbound turns without a user action
StreamNext ==
    \/ /\ pc = "idle"
       /\ \E ui \in BOOLEAN, sid \in ConvIds,
             m \in {f \in Inbound(WeatherActionNames, "confirmAlerts") :
                      f.user_action = "absent"} :
               WeatherParse(ui, sid, m)
    \/ /\ pc = "idle"
       /\ \E ui \in BOOLEAN, sid \in ConvIds, m \in FreshQueries :
               TwoParse(ui, sid, m)
    \/ WeatherExecute
    \/ TwoExecute
    \/ ExecuteReturn
    \/ GenEvent
    \/ \E location \in Locations : ShowWeatherConfirmation(location)
    \/ \E fault \in BOOLEAN : WeatherFinish(fault)
    \/ \E fault \in BOOLEAN : TwoFinish(fault)
    \/ StreamStep

\* those turns when every generation call ends and the stream call is
\* run to its end by the router that iterates it
LiveSpec == Init /\ [][StreamNext]_vars /\ WF_vars(StreamStep)

\* ---------------------------------------------------------------------
\* The validation of one reply by itself (WeatherAgent.stream, lines
\* 335-403): extraction, repair, parsing and schema validation applied to
\* replies drawn from a set of payloads and of ways to frame them.  The
\* two repairs are also applied up to twice in a row to the payload.
\* ---------------------------------------------------------------------

\* edits applied to the seed payloads
MaxEdits == 1

\* the segments an edit inserts
EditChars == {",", "}", "]"}

Delete(s, i) == SubSeq(s, 1, i - 1) \o SubSeq(s, i + 1, Len(s))

Insert(s, i, c) == SubSeq(s, 1, i) \o <<c>> \o SubSeq(s, i + 1, Len(s))

EditOnce(s) ==
    {Delete(s, i) : i \in 1..Len(s)}
      \cup {Insert(s, i, c) : i \in 0..Len(s), c \in EditChars}

RECURSIVE Edited(_, _)
\* the texts at most n edits away from a text of S
Edited(S, n) ==
    IF n = 0 THEN S
    ELSE Edited(S \cup UNION {EditOnce(s) : s \in S}, n - 1)

\* JSON values
Str(v) == [t |-> "str", v |-> v]

Obj(members) == [t |-> "obj", v |-> members]

Arr(elems) == [t |-> "arr", v |-> elems]

Member(k, v) == [k |-> <<k>>, v |-> v]

\* {"deleteSurface": {"surfaceId": id}}
DeleteSurface(id) ==
    Obj(<<Member("\"deleteSurface\"",
                 Obj(<<Member("\"surfaceId\"", Str(id))>>))>>)

\* {"beginRendering": {"surfaceId": "s", "root": "r"}}
BeginRendering ==
    Obj(<<Member("\"beginRendering\"",
                 Obj(<<Member("\"surfaceId\"", Str(<<"\"s\"">>)),
                       Member("\"root\"", Str(<<"\"r\"">>))>>))>>)

\* directive batches that satisfy the schema; the last one has a string
\* with a comma and a closer in it
Batches ==
    { Arr(<<DeleteSurface(<<"\"s\"">>)>>),
      Arr(<<BeginRendering, DeleteSurface(<<"\"s\"">>)>>),
      Arr(<<DeleteSurface(<<"\"", ",", "}", "\"">>)>>) }

RECURSIVE Serialize(_)
RECURSIVE SerializeElems(_)
RECURSIVE SerializeMembers(_)

\* the JSON text of a value, with the separators ", " and ": "
Serialize(val) ==
    CASE val.t = "arr" -> <<"[">> \o SerializeElems(val.v) \o <<"]">>
      [] val.t = "obj" -> <<"{">> \o SerializeMembers(val.v) \o <<"}">>
      [] OTHER -> val.v

SerializeElems(vs) ==
    IF vs = <<>> THEN <<>>
    ELSE Serialize(Head(vs))
           \o (IF Len(vs) > 1 THEN <<",", " ">> \o SerializeElems(Tail(vs))
               ELSE <<>>)

SerializeMembers(ms) ==
    IF ms = <<>> THEN <<>>
    ELSE Head(ms).k \o <<":", " ">> \o Serialize(Head(ms).v)
           \o (IF Len(ms) > 1 THEN <<",", " ">> \o SerializeMembers(Tail(ms))
               ELSE <<>>)

\* payloads that the edits are applied to
EditSeeds ==
    { <<"[", "{", "}", "]">>,
      <<"[", "{", "\"surfaceId\"", ":", "\"s\"">>,
      <<"{", "\"surfaceId\"", ":", "[", "\"s\"">>,
      <<"[", "1", ",", "]">>,
      <<"[">> \o DS \o <<"]">> }

\* payloads taken as they are
PlainSeeds ==
    { <<" ">>, <<"json">>, <<"null">>,
      <<"[">> \o BR \o <<",", " ">> \o DS \o <<"]">>,
      <<"[">> \o DS \o <<"}", "]">>,
      <<"[", "{", "}", "]", " ", "\"note\"">>,
      <<"[", "{", "\"deleteSurface\"", ":", "{", "}", "}", "]">>,
      <<"[", "{", "\"deleteSurface\"", ":", "{", "\"surfaceId\"", ":",
        "\"s\"", "}", ",", "\"beginRendering\"", ":", "{",
        "\"surfaceId\"", ":", "\"s\"", ",", "\"root\"", ":", "\"r\"",
        "}", "}", "]">>,
      DS }
      \cup {Serialize(B) : B \in Batches}

\* the ways a reply frames its payload
Framings == {"none", "plain", "json fence", "fence", "open fence", "twice"}

Frame(framing, payload) ==
    CASE framing = "none" -> <<"Hello">> \o payload
      [] framing = "plain" -> <<"Hello", DELIM>> \o payload
      [] framing = "json fence" ->
           <<"Hello", DELIM, "\n", TICKS, "json", "\n">> \o payload
             \o <<"\n", TICKS>>
      [] framing = "fence" ->
           <<"Hello", DELIM, TICKS, "\n">> \o payload \o <<"\n", TICKS>>
      [] framing = "open fence" ->
           <<"Hello", DELIM, TICKS, "json", "\n">> \o payload
      [] OTHER -> <<"Hello", DELIM>> \o payload \o <<DELIM, "Bye">>

\* the replies whose validation is followed
RawReplies ==
    {Frame(f, p) : f \in Framings, p \in EditSeeds \cup PlainSeeds}
      \cup {Frame("plain", p) : p \in Edited(EditSeeds, MaxEdits)}

mainVars == <<pc, turnVars, attempt, current_query_text, inflight, events,
              calls, outcomes, agent_response_content, emitted, pending,
              awaiting, displaced, requested, sessionVars>>

PayloadInit ==
    /\ NoTurn
    /\ NoSessions
    /\ reply \in RawReplies
    /\ step = "start"
    /\ extracted = [diag |-> "", payload |-> <<>>]
    /\ texts = <<>>
    /\ applied = <<>>
    /\ parsed_json_data = ParseFail
    /\ is_valid = FALSE

\* lines 337-353
ExtractPayload ==
    /\ step = "start"
    /\ step' = "extracted"
    /\ extracted' = Extract(reply)
    /\ UNCHANGED <<mainVars, reply, texts, applied, parsed_json_data,
                   is_valid>>

\* one of the two repairs applied to the payload, or to the result of the
\* repair applied before
Repair(name, json_str) ==
    /\ step \in {"extracted", "repairing"}
    /\ extracted.diag = ""
    /\ Len(applied) < 2
    /\ step' = "repairing"
    /\ applied' = Append(applied, name)
    /\ texts' = Append(texts, json_str)
    /\ UNCHANGED <<mainVars, reply, extracted, parsed_json_data, is_valid>>

\* the text the next repair is applied to
Current == IF texts = <<>> THEN extracted.payload ELSE texts[Len(texts)]

ApplyRepair == Repair("_repair_json", _repair_json(Current))

ApplyRepairAggressive ==
    Repair("_repair_json_aggressive", _repair_json_aggressive(Current))

\* lines 359-390: json.loads after the repairs
ParsePayload ==
    /\ step = "extracted"
    /\ extracted.diag = ""
    /\ step' = "parsed"
    /\ parsed_json_data' = ParseRepaired(extracted.payload)
    /\ UNCHANGED <<mainVars, reply, extracted, texts, applied, is_valid>>

\* lines 392-403: jsonschema.validate
ValidateSchema ==
    /\ step = "parsed"
    /\ parsed_json_data.ok
    /\ step' = "validated"
    /\ is_valid' = SchemaValid(parsed_json_data.val)
    /\ UNCHANGED <<mainVars, reply, extracted, texts, applied,
                   parsed_json_data>>

PayloadNext ==
    \/ ExtractPayload
    \/ ApplyRepair
    \/ ApplyRepairAggressive
    \/ ParsePayload
    \/ ValidateSchema

PayloadSpec == PayloadInit /\ [][PayloadNext]_vars

\* ---------------------------------------------------------------------
\* The session stores by themselves: the stream calls of the two agents of
\* TwoAgentExecutor get or create their session, the tool writes the
\* request into the session of the running ConfirmationAgent and the
\* router deletes it
\* ---------------------------------------------------------------------

MaxTurns == 3

nonSessionVars == <<pc, turnVars, attempt, current_query_text, inflight, events, calls, outcomes, agent_response_content, emitted, pending, awaiting, displaced, requested, payloadVars>>

\* a stream call that starts from a new session every time
OpenSessionAnew(ag, sid) ==
    /\ ~obtained.running
    /\ sessions[ag][sid].turns < MaxTurns
    /\ obtained' = [agent |-> ag, sid |-> sid, running |-> TRUE,
                    state |-> NoSession]
    /\ sessions' = [sessions EXCEPT ![ag][sid] =
                        [exists |-> TRUE, pending |-> NoRequest, turns |-> 1]]
    /\ UNCHANGED <<handoffs, nonSessionVars>>

\* stream of the agent ag under session_id sid: get_session, create_session
\* when there is none, and the run that adds the turn to the session
OpenSession(ag, sid) ==
    /\ ~obtained.running
    /\ sessions[ag][sid].turns < MaxTurns
    /\ obtained' = [agent |-> ag, sid |-> sid, running |-> TRUE,
                    state |-> sessions[ag][sid]]
    /\ sessions' = [sessions EXCEPT ![ag][sid] =
                        [exists |-> TRUE, pending |-> @.pending,
                         turns |-> @.turns + 1]]
    /\ UNCHANGED <<handoffs, nonSessionVars>>

\* show_weather_confirmation during the run of the ConfirmationAgent:
\* tool_context.state is the state of the session of the run
ToolWrites(location) ==
    /\ obtained.running
    /\ obtained.agent = "confirmation_agent"
    /\ sessions' = [sessions EXCEPT ![obtained.agent][obtained.sid].pending =
                        Request(location)]
    /\ UNCHANGED <<obtained, handoffs, nonSessionVars>>

\* the stream call yields its final item
EndStream ==
    /\ obtained.running
    /\ obtained' = [obtained EXCEPT !.running = FALSE]
    /\ UNCHANGED <<sessions, handoffs, nonSessionVars>>

\* the router finds the request in the session of the agent that ran and
\* deletes it (only after the ConfirmationAgent, with the UI extension on)
RouterClears ==
    /\ ~obtained.running
    /\ obtained.agent = "confirmation_agent"
    /\ sessions[obtained.agent][obtained.sid].pending # NoRequest
    /\ sessions' = [sessions EXCEPT ![obtained.agent][obtained.sid].pending =
                        NoRequest]
    /\ UNCHANGED <<obtained, handoffs, nonSessionVars>>

SessionNext ==
    \/ \E ag \in SessionAgents, sid \in ConvIds : OpenSession(ag, sid)
    \/ \E location \in ToolLocations : ToolWrites(location)
    \/ EndStream
    \/ RouterClears

SessionSpec == Init /\ [][SessionNext]_vars

\* ---------------------------------------------------------------------
\* Turns of the Gatherer for distinct identifiers that run at the same
\* time: every execute call has its own locals (handoffs[sid]) and the
\* calls share the session service of the ConfirmationAgent
\* ---------------------------------------------------------------------

\* execute for identifier sid up to the generation call of the
\* ConfirmationAgent: stream gets or creates the session of sid
GathererStart(sid, ui) ==
    /\ handoffs[sid].pos = "idle"
    /\ sessions["confirmation_agent"][sid].turns < MaxTurns
    /\ sessions' = [sessions EXCEPT !["confirmation_agent"][sid] =
                        [exists |-> TRUE, pending |-> @.pending,
                         turns |-> @.turns + 1]]
    /\ handoffs' = [handoffs EXCEPT ![sid] =
                        [pos |-> "gen", use_ui |-> ui, shown |-> NoRequest]]
    /\ UNCHANGED <<obtained, nonSessionVars>>

\* show_weather_confirmation during the generation call for sid
GathererToolWrites(sid, location) ==
    /\ handoffs[sid].pos = "gen"
    /\ sessions' = [sessions EXCEPT !["confirmation_agent"][sid].pending =
                        Request(location)]
    /\ UNCHANGED <<obtained, handoffs, nonSessionVars>>

\* the stream call for sid yields its complete item
GathererYields(sid) ==
    /\ handoffs[sid].pos = "gen"
    /\ handoffs' = [handoffs EXCEPT ![sid].pos = "yielded"]
    /\ UNCHANGED <<sessions, obtained, nonSessionVars>>

\* a router that reads the request of whichever session has one
GathererFinishAnySession(sid, fault) ==
    /\ handoffs[sid].pos = "yielded"
    /\ LET checks == handoffs[sid].use_ui /\ ~fault
           holders == {c \in SessionIds :
                         sessions["confirmation_agent"][c].pending # NoRequest}
           from == IF holders = {} THEN sid
                   ELSE CHOOSE c \in holders : \A d \in holders : c <= d
           found == checks /\ holders # {}
       IN  /\ sessions' =
                 IF found
                 THEN [sessions EXCEPT
                         !["confirmation_agent"][from].pending = NoRequest]
                 ELSE sessions
           /\ handoffs' = [handoffs EXCEPT ![sid] =
                 [pos |-> "done", use_ui |-> @.use_ui,
                  shown |-> IF found
                            THEN sessions["confirmation_agent"][from].pending
                            ELSE NoRequest]]
    /\ UNCHANGED <<obtained, nonSessionVars>>

\* the confirmation check of the router for sid (lines 338-385): with the
\* UI extension on and no fault it reads the session of sid, deletes the
\* request it finds and shows it
GathererFinish(sid, fault) ==
    /\ handoffs[sid].pos = "yielded"
    /\ LET checks == handoffs[sid].use_ui /\ ~fault
           found == checks
                      /\ sessions["confirmation_agent"][sid].pending # NoRequest
       IN  /\ sessions' =
                 IF found
                 THEN [sessions EXCEPT
                         !["confirmation_agent"][sid].pending = NoRequest]
                 ELSE sessions
           /\ handoffs' = [handoffs EXCEPT ![sid] =
                 [pos |-> "done", use_ui |-> @.use_ui,
                  shown |-> IF found
                            THEN sessions["confirmation_agent"][sid].pending
                            ELSE NoRequest]]
    /\ UNCHANGED <<obtained, nonSessionVars>>

\* execute for sid returns
GathererReturn(sid) ==
    /\ handoffs[sid].pos = "done"
    /\ handoffs' = [handoffs EXCEPT ![sid] = NoHandoff]
    /\ UNCHANGED <<sessions, obtained, nonSessionVars>>

\* the two identifiers A and B whose turns run at the same time
IsolationIds == {1, NumConvs + 1}

IsolationNext ==
    \/ \E sid \in IsolationIds, ui \in BOOLEAN : GathererStart(sid, ui)
    \/ \E sid \in IsolationIds, location \in ToolLocations :
            GathererToolWrites(sid, location)
    \/ \E sid \in IsolationIds : GathererYields(sid)
    \/ \E sid \in IsolationIds, fault \in BOOLEAN : GathererFinish(sid, fault)
    \/ \E sid \in IsolationIds : GathererReturn(sid)

IsolationSpec == Init /\ [][IsolationNext]_vars

\* ---------------------------------------------------------------------
\* Properties
\* ---------------------------------------------------------------------

IsWeatherAgent == agent \in {"ui_agent", "text_agent", "weather_agent"}

\* the attempt ended with a diagnostic (not accepted, no exception)
Failed(o) == o.diag \notin {"", "exception"}

\* the generation call of the attempt returned a reply
IsReply(o) == o.result \notin {None, Raised}

TerminalStates == {"completed", "input-required"}

\* agent.stream has yielded its final content
Yielded == pc \in {"yielded", "done"} /\ agent_response_content # None

\* C1: when execute returns from a turn for which the router invoked an
\* agent, a terminal status (completed or input-required) has been emitted
C1_TerminalStatusEmitted ==
    (pc = "done" /\ agent # "none")
        => \E n \in 1..Len(emitted) : emitted[n].state \in TerminalStates

\* C2: one call of WeatherAgent.stream makes at most maxAttempts = 2
\* generation calls; a failure on attempt 1 leads to Retrying (the loop is
\* re-entered and attempt 2 is the next call), a failure on attempt 2 ends
\* the loop with a fixed apology and no further call
C2_AtMostMaxAttemptsCalls ==
    /\ Len(calls) <= 2
    /\ (IsWeatherAgent /\ Len(outcomes) >= 1 /\ Failed(outcomes[1]))
          => \/ pc = "loop" /\ attempt = 1 /\ Len(calls) = 1
             \/ Len(calls) = 2 /\ calls[2].attempt = 2
    /\ (IsWeatherAgent /\ Len(outcomes) = 2
           /\ (Failed(outcomes[2]) \/ outcomes[2].result = None))
          => /\ pc \in {"loop", "yielded", "done"}
             /\ pc = "loop" => attempt = 2 /\ ~ENABLED Invoke
             /\ pc # "loop" =>
                    agent_response_content \in {ExhaustedText, NoResponseText}

\* C2 witness: two generation calls were made and the second attempt failed
C2_Witness ==
    /\ pc = "done" /\ IsWeatherAgent
    /\ Len(calls) = 2 /\ Len(outcomes) = 2
    /\ Failed(outcomes[1]) /\ Failed(outcomes[2])

\* every ended generation call of the turn returned a reply without the
\* delimiter
AllRepliesLackDelimiter ==
    /\ Len(outcomes) >= 1
    /\ \A n \in 1..Len(outcomes) :
          IsReply(outcomes[n]) /\ ~HasDelimiter(outcomes[n].result)

\* C3: in structured-output mode a reply without the delimiter fails with
\* the delimiter-missing diagnostic; when every reply of the turn lacks the
\* delimiter there is exactly one corrective retry (two generation calls)
\* and the loop ends in ExhaustedFailure
C3_DelimiterMissingRetriesOnce ==
    AgentUsesUi(agent) =>
      /\ \A n \in 1..Len(outcomes) :
            (IsReply(outcomes[n]) /\ ~HasDelimiter(outcomes[n].result))
                => outcomes[n].diag = DiagDelimiter
      /\ (Yielded /\ AllRepliesLackDelimiter)
            => /\ Len(calls) = 2 /\ Len(outcomes) = 2
               /\ calls[2].prompt =
                      CorrectivePrompt(ErrorMessage(DiagDelimiter), query)
               /\ agent_response_content = ExhaustedText

\* C3 witness: both replies of a structured-output turn lacked the delimiter
C3_Witness ==
    /\ pc = "done" /\ AgentUsesUi(agent)
    /\ Len(outcomes) = 2 /\ AllRepliesLackDelimiter

\* the last status update of the turn
LastStatus == emitted[Len(emitted)]

IsDataPart(part) == part.kind = "data"

\* the directives of the structured-directive parts, in part order
Directives(parts) ==
    LET data == SelectSeq(parts, IsDataPart)
    IN  [n \in 1..Len(data) |-> data[n].data]

HasTextPart(parts, text) ==
    \E n \in 1..Len(parts) : parts[n].kind = "text" /\ parts[n].text = text

\* the reply of the attempt failed the validation
ValidationFailed(o) == IsReply(o) /\ Failed(o)

\* the retry loop of a structured-output agent used up its attempts on
\* replies that failed the validation
Exhausted ==
    /\ agent \in {"ui_agent", "weather_agent"}
    /\ Len(outcomes) = 2
    /\ ValidationFailed(outcomes[1]) /\ ValidationFailed(outcomes[2])

\* the actions for which WeatherAgentExecutor completes the task
ConfirmOrReject ==
    action \in {"confirmAlerts", "confirm_weather_selection", "rejectAlerts"}

Accepted ==
    /\ AgentUsesUi(agent)
    /\ Yielded
    /\ outcomes # <<>>
    /\ IsReply(outcomes[Len(outcomes)])
    /\ outcomes[Len(outcomes)].diag = ""

\* C5: in structured-output mode, when the retry loop reaches Accepted,
\* the structured-directive parts of the outbound turn of TwoAgentExecutor
\* are exactly the elements of the validated batch, in batch order
C5_DirectivePartsAreValidatedBatch ==
    (pc = "done" /\ executor = "two" /\ Accepted)
        => /\ emitted # <<>>
           /\ Directives(LastStatus.parts)
                = ValidateReply(agent_response_content).batch.v

\* the payload of a reply passes extraction, repair, parsing and the schema
PayloadPasses(content) ==
    LET cleaned == CleanPayload(SplitJson(content))
    IN  /\ HasDelimiter(content)
        /\ Strip(SplitJson(content)) # <<>>
        /\ cleaned # <<>>
        /\ ParseRepaired(cleaned).ok
        /\ SchemaValid(ParseRepaired(cleaned).val)

\* C6: in structured-output mode the final content yielded by stream is
\* either a reply whose payload passed extraction, repair, parsing and
\* schema validation, or the fixed apology; a reply that failed is never
\* the final content, and ExhaustedFailure carries no structured payload
C6_FinalContentValidatedOrApology ==
    (AgentUsesUi(agent) /\ Yielded)
        => /\ \/ agent_response_content = ExhaustedText
              \/ /\ IsReply(outcomes[Len(outcomes)])
                 /\ agent_response_content = outcomes[Len(outcomes)].result
                 /\ PayloadPasses(agent_response_content)
           /\ \A n \in 1..Len(outcomes) :
                 Failed(outcomes[n])
                    => agent_response_content # outcomes[n].result
           /\ Failed(outcomes[Len(outcomes)])
                 => /\ agent_response_content = ExhaustedText
                    /\ ~HasDelimiter(agent_response_content)

\* C6 witness: a reply accepted on the second attempt whose payload parses
\* only after repair
C6_Witness ==
    /\ pc = "yielded" /\ AgentUsesUi(agent)
    /\ Len(outcomes) = 2 /\ Failed(outcomes[1])
    /\ outcomes[2].diag = ""
    /\ ~Loads(CleanPayload(SplitJson(agent_response_content))).ok

\* the generation call of attempt n returned no content
EmptyReply(n) == Len(outcomes) >= n /\ outcomes[n].result = None

\* the request quoted at the end of a retry prompt
RequestOf(prompt) ==
    LET k == Find(prompt, "Please retry the original request: '")
    IN  IF k = 0 \/ prompt[Len(prompt)] # "'" THEN <<"<no request>">>
        ELSE SubSeq(prompt, k + 1, Len(prompt) - 1)

\* a prompt that reports the missing response and quotes the request
IsPleaseRetry(prompt) ==
    /\ prompt # <<>>
    /\ Head(prompt) = DiagNoResponse
    /\ RequestOf(prompt) = query

\* C7 as stated: when the generation call of attempt maxAttempts returns
\* no content, the final content is the ExhaustedFailure apology string
\* whether structured-output mode is enabled or disabled
C7_EmptyLastReplyIsExhaustedApology ==
    (IsWeatherAgent /\ Yielded /\ EmptyReply(2))
        => agent_response_content = ExhaustedText

\* C7 amended: when the generation call of attempt maxAttempts returns no
\* content, the final content is the ExhaustedFailure apology string in
\* structured-output mode and the distinct fixed text "I'm sorry, I
\* encountered an error and couldn't process your request." when the mode
\* is disabled; when the call of attempt 1 returns no content the loop
\* retries exactly once with a 'please retry' prompt quoting the request
C7_EmptyReplyHandling ==
    IsWeatherAgent =>
        /\ (Yielded /\ EmptyReply(2))
              => /\ Len(calls) = 2
                 /\ agent_response_content =
                      IF agent = "text_agent" THEN NoResponseText
                      ELSE ExhaustedText
        /\ EmptyReply(1)
              => /\ Len(calls) <= 2
                 /\ \/ pc = "loop" /\ Len(calls) = 1
                       /\ IsPleaseRetry(current_query_text)
                       /\ ENABLED Invoke
                    \/ Len(calls) = 2 /\ IsPleaseRetry(calls[2].prompt)

\* C7 witness: with the mode disabled both generation calls returned no
\* content and the turn ended
C7_Witness ==
    /\ pc = "done" /\ agent = "text_agent"
    /\ EmptyReply(1) /\ EmptyReply(2)
    /\ agent_response_content = NoResponseText

\* C8: with structured-output mode disabled, a generation call that
\* returns a non-empty reply is accepted on that attempt: the reply is
\* yielded unchanged as the final content and no later call is made
C8_TextModeAcceptsAnyReply ==
    agent = "text_agent" =>
        \A n \in 1..Len(outcomes) :
            IsReply(outcomes[n])
                => /\ n = Len(outcomes)
                   /\ Len(calls) = n
                   /\ outcomes[n].diag = ""
                   /\ pc \in {"yielded", "done"}
                   /\ agent_response_content = outcomes[n].result

\* C8 witness: a reply without the delimiter was accepted on attempt 1
C8_Witness ==
    /\ pc = "done" /\ agent = "text_agent"
    /\ Len(calls) = 1 /\ Len(outcomes) = 1
    /\ IsReply(outcomes[1]) /\ ~HasDelimiter(outcomes[1].result)
    /\ agent_response_content = outcomes[1].result

\* C9: the prompt of every retry contains the diagnostic of the failed
\* attempt and the original query verbatim, and the retry is attempt + 1;
\* the first call is made with the query itself
C9_CorrectivePromptQuotesDiagnosticAndQuery ==
    IsWeatherAgent =>
        /\ Len(calls) >= 1 => calls[1].attempt = 1 /\ calls[1].prompt = query
        /\ \A n \in 2..Len(calls) :
              /\ calls[n].attempt = calls[n - 1].attempt + 1
              /\ Failed(outcomes[n - 1])
              /\ InSeq(outcomes[n - 1].diag, calls[n].prompt)
              /\ RequestOf(calls[n].prompt) = query

\* C9 witness: the second call is made after a schema failure
C9_Witness ==
    /\ IsWeatherAgent /\ Len(calls) = 2
    /\ outcomes[1].diag = DiagSchema
    /\ query # <<>>

\* C10: attempts are strictly sequential: at most one generation call is
\* in flight, and the call of attempt n + 1 is made only after attempt n
\* has ended with a failed validation
C10_AttemptsSequential ==
    /\ inflight <= 1
    /\ inflight = 1 <=> pc = "gen"
    /\ Len(calls) = Len(outcomes) + inflight
    /\ IsWeatherAgent =>
          \A n \in 2..Len(calls) :
              Len(outcomes) >= n - 1 /\ Failed(outcomes[n - 1])

\* C10 witness: the second generation call is in flight
C10_Witness ==
    /\ pc = "gen" /\ IsWeatherAgent
    /\ attempt = 2 /\ Len(calls) = 2 /\ Len(outcomes) = 1

\* the Gatherer's turn has completed with a request in the conversation
\* state
GathererDoneWithRequest ==
    /\ pc = "yielded"
    /\ agent = "confirmation_agent"
    /\ pending[conv] # NoRequest

\* the batch _generate_confirmation_ui builds from request r, with every
\* field of r in the contents of its data model update
BatchOf(r) ==
    _generate_confirmation_ui(r.location, r.latitude, r.longitude,
                              r.display_name, r.state_code)

CarriesRequest(batch, r) ==
    /\ batch = BatchOf(r)
    /\ \E n \in 1..Len(batch) :
          /\ Head(batch[n].v) = "dataModelUpdate"
          /\ \A f \in {r.location, r.latitude, r.longitude, r.display_name,
                        r.state_code} : InSeq(f, batch[n].v)

\* the router ends the turn with the confirmation turn for request r
EmitsConfirmationTurn(r) ==
    /\ emitted' # <<>>
    /\ emitted'[Len(emitted')].state = "input-required"
    /\ ~emitted'[Len(emitted')].final
    /\ CarriesRequest(Directives(emitted'[Len(emitted')].parts), r)
    /\ ~HasTextPart(emitted'[Len(emitted')].parts, agent_response_content)

\* the router ends the turn with the model's reply, completed and final
EmitsReply ==
    /\ emitted' # <<>>
    /\ emitted'[Len(emitted')].state = "completed"
    /\ emitted'[Len(emitted')].final
    /\ emitted'[Len(emitted')].parts
          = FinalParts(agent_response_content, TRUE)

EmitsConfirmationBatch ==
    /\ Len(emitted') = Len(emitted) + 1
    /\ emitted'[Len(emitted')].state = "input-required"
    /\ Directives(emitted'[Len(emitted')].parts) # <<>>
    /\ \A n \in 1..Len(Directives(emitted'[Len(emitted')].parts)) :
          Directives(emitted'[Len(emitted')].parts)[n].t = "confirmation_ui"

DecodingConfirm == action \in {"confirmAlerts", "confirmWeather"}

\* a confirm action has started a retrieval instruction for the Fetcher
FetchStarted ==
    /\ agent' \in {"ui_agent", "text_agent", "weather_agent"}
    /\ pc' = "loop"
    /\ query' # <<>>

\* C13: a confirm action leads to a retrieval instruction for the Fetcher
\* only if a confirmation turn was emitted earlier for the conversation
\* and has not been answered; a confirm action received in AwaitingQuery
\* does not start a fetch
C13_FetchOnlyFromAwaitingConfirmation ==
    [][(pc = "parsed"
          /\ action \in {"confirmAlerts", "confirmWeather",
                         "confirm_weather_selection"}
          /\ ~awaiting[conv])
        => ~FetchStarted]_vars

\* the selection forms the decoding rule speaks of
LiteralTrue == {"True", "{literalBoolean: True}"}
LiteralFalse == {"False", "{literalBoolean: False}"}
StringForms == {"'true'", "'YES'", "'1'", "'no'"}
PathForms == {"{path: /form/x}"}
CoveredForms ==
    LiteralTrue \cup LiteralFalse \cup StringForms \cup PathForms
      \cup {"absent"}

\* the decoding as stated: a literal boolean gives that boolean, a string
\* gives true exactly when it is "true", "1" or "yes" in any case, a path
\* reference gives false, an absent entry gives false
StatedDecode(raw) == raw \in LiteralTrue \cup {"'true'", "'YES'", "'1'"}

\* the decoding of TwoAgentExecutor: a literal boolean gives that boolean,
\* a string gives true exactly when it is "true" in any case, a path
\* reference gives true, an absent entry gives false
StatedTwoDecode(raw) == raw \in LiteralTrue \cup {"'true'"} \cup PathForms

\* the selections of the confirm action just read are covered by the rule
SelectionsRead ==
    /\ pc = "parsed" /\ DecodingConfirm
    /\ message.fraw \in CoveredForms /\ message.araw \in CoveredForms

\* C14 as stated: on a confirm action each selection is decoded by the
\* stated rule, in both routers
C14_SelectionsDecoded ==
    SelectionsRead
        => /\ forecast_selected = StatedDecode(message.fraw)
           /\ alerts_selected = StatedDecode(message.araw)

\* C14 amended: WeatherAgentExecutor decodes each selection by the stated
\* rule; TwoAgentExecutor gives true for a literal true, for a string that
\* equals "true" case-insensitively and for a path reference, and false
\* for a literal false, any other string and an absent entry
C14_SelectionsDecodedPerRouter ==
    SelectionsRead
        => IF executor = "weather"
           THEN /\ forecast_selected = StatedDecode(message.fraw)
                /\ alerts_selected = StatedDecode(message.araw)
           ELSE /\ forecast_selected = StatedTwoDecode(message.fraw)
                /\ alerts_selected = StatedTwoDecode(message.araw)

\* C14 witness: WeatherAgentExecutor has decoded the string "YES" and a
\* path reference
C14_Witness ==
    /\ pc = "parsed" /\ executor = "weather" /\ action = "confirmAlerts"
    /\ message.fraw = "'YES'" /\ forecast_selected
    /\ message.araw = "{path: /form/x}" /\ ~alerts_selected

\* the text segments that reference a retrieval operation
ForecastCalls == {"   - Call get_forecast(", "1. Call get_forecast("}
AlertsCalls == {"   - Call get_alerts(", "2. Call get_alerts("}

References(text, segments) ==
    \E n \in 1..Len(text) : text[n] \in segments

Routed == pc \notin {"idle", "parsed"}

\* the turn was short-circuited with the fixed acknowledgement
ShortCircuited ==
    /\ pc = "done"
    /\ agent = "none"
    /\ calls = <<>> /\ outcomes = <<>> /\ inflight = 0
    /\ emitted # <<>>
    /\ LastStatus.state = "completed" /\ LastStatus.final
    /\ LastStatus.parts
          = <<TextPart(<<"No problem! Let me know if you change your mind.">>)>>

\* C17 as stated: a reject action short-circuits the turn in both routers:
\* a completed, final turn with the fixed acknowledgement text, and no
\* generation call of either agent
C17_RejectShortCircuits ==
    (Routed /\ action \in {"rejectWeather", "rejectAlerts"})
        => ShortCircuited

\* C17 amended: in TwoAgentExecutor the reject action (rejectWeather)
\* short-circuits the turn as stated; in WeatherAgentExecutor the reject
\* action (rejectAlerts) is forwarded to the agent as a query that states
\* the rejection, and that query is the prompt of the first generation call
C17_RejectShortCircuitsInTwo ==
    /\ (Routed /\ action = "rejectWeather") => ShortCircuited
    /\ (Routed /\ action = "rejectAlerts")
          => /\ agent \in {"ui_agent", "text_agent"}
             /\ query = <<"User rejected weather query for ", "Boston",
                          ". No weather data will be fetched.">>
             /\ calls # <<>> => calls[1].prompt = query

\* C17 witness: the turn of a rejectWeather action has ended
C17_Witness ==
    /\ executor = "two" /\ action = "rejectWeather"
    /\ ShortCircuited
    /\ Len(emitted) = 2 /\ emitted[1].state = "working"

\* C18 as stated: TwoAgentExecutor sends an inbound turn without a
\* userAction data part to the Gatherer and never to the Fetcher, and never
\* sends an inbound turn with a userAction data part to the Gatherer
C18_RoutesByUserAction ==
    [][(pc = "parsed" /\ executor = "two")
        => /\ message.user_action = "absent"
                => agent' = "confirmation_agent"
           /\ message.user_action # "absent"
                => agent' # "confirmation_agent"]_vars

\* C18 amended: TwoAgentExecutor sends an inbound turn whose userAction
\* entry is absent or empty to the Gatherer and never to the Fetcher, and
\* never sends a turn with a non-empty userAction entry to the Gatherer
C18_RoutesByNonEmptyUserAction ==
    [][(pc = "parsed" /\ executor = "two")
        => /\ message.user_action \in {"absent", "empty"}
                => agent' = "confirmation_agent" /\ pc' = "gen"
           /\ message.user_action = "named"
                => agent' \in {"weather_agent", "none"}]_vars

\* C18 witness: a turn with a userAction entry is with the Fetcher
C18_Witness ==
    /\ pc = "gen" /\ executor = "two" /\ agent = "weather_agent"
    /\ action = "toggle_option"
    /\ calls = <<[attempt |-> 1, prompt |-> query]>>
    /\ InSeq("toggle_option", query)

\* the action names the routers treat as confirm or reject
ConfirmOrRejectNames ==
    {"confirmAlerts", "confirm_weather_selection", "rejectAlerts",
     "confirmWeather", "rejectWeather"}

\* the action is forwarded: the query contains its name verbatim and the
\* turn enters the retry loop of the agent
Forwarded ==
    /\ InSeq(action, query')
    /\ agent' \in {"ui_agent", "text_agent", "weather_agent"}
    /\ pc' = "loop"
    /\ current_query_text' = query'

\* C19 as stated: a user action whose name is neither the confirm nor the
\* reject action is forwarded to the agent as a query text that contains
\* the action name verbatim, and the turn proceeds through the retry loop
C19_OtherActionsForwarded ==
    [][(pc = "parsed" /\ action \notin ConfirmOrRejectNames \cup {"none"})
        => Forwarded]_vars

\* C19 amended: the same for every such action except toggle_option in
\* WeatherAgentExecutor, which ends the turn without a query
C19_OtherActionsForwardedExceptToggle ==
    [][(pc = "parsed" /\ action \notin ConfirmOrRejectNames \cup {"none"})
        => IF executor = "weather" /\ action = "toggle_option"
           THEN pc' = "done" /\ agent' = "none" /\ query' = <<>>
           ELSE Forwarded]_vars

\* C19 witness: the first generation call for a submit_form action
C19_Witness ==
    /\ pc = "gen" /\ action = "submit_form"
    /\ InSeq("submit_form", query)
    /\ Len(calls) = 1 /\ calls[1].prompt = query

\* the inbound turn had no actionable payload: a toggle notification, or
\* no action and an empty text
NoActionablePayload ==
    action = "toggle_option" \/ (action = "none" /\ query = <<>>)

SilentlyConsumed ==
    /\ pc = "done"
    /\ emitted = <<>>
    /\ agent = "none"
    /\ calls = <<>> /\ outcomes = <<>>

\* C20 as stated: an inbound action without actionable payload is silently
\* consumed by both routers: execute returns having emitted no status and
\* without invoking any agent
C20_NoPayloadSilentlyConsumed ==
    (Routed /\ NoActionablePayload) => SilentlyConsumed

\* C20 amended: WeatherAgentExecutor silently consumes such a turn;
\* TwoAgentExecutor has emitted a working status before reading the
\* message and forwards the turn: a toggle notification to the weather
\* agent, an empty text to the confirmation agent
C20_NoPayloadSilentlyConsumedByWeather ==
    (Routed /\ NoActionablePayload)
        => IF executor = "weather" THEN SilentlyConsumed
           ELSE /\ emitted # <<>> /\ emitted[1].state = "working"
                /\ agent = IF action = "toggle_option" THEN "weather_agent"
                           ELSE "confirmation_agent"

\* C20 witness: WeatherAgentExecutor returned from a toggle notification
C20_Witness ==
    /\ executor = "weather" /\ action = "toggle_option"
    /\ SilentlyConsumed

\* C21: in every status update a router has emitted, the final flag is
\* true exactly when the task state is completed
C21_FinalIffCompleted ==
    \A n \in 1..Len(emitted) :
        emitted[n].final <=> emitted[n].state = "completed"

\* C21 witness: a turn with a working update and an input-required update,
\* neither of them final
C21_Witness ==
    /\ pc = "done" /\ Len(emitted) >= 2
    /\ emitted[1].state = "working" /\ ~emitted[1].final
    /\ LastStatus.state = "input-required" /\ ~LastStatus.final

\* the router is about to inspect the session for the confirmation
\* hand-off (lines 471 / 339)
HandoffAttempted ==
    /\ pc = "yielded" /\ use_ui /\ agent_response_content # <<>>
    /\ executor = "two" => agent = "confirmation_agent"

\* C22 as stated: when the session access of the confirmation hand-off
\* raises, the turn continues: the content the agent yielded is emitted as
\* the answer of the turn with a terminal status, and not as an error turn
C22_HandoffFaultFallsThrough ==
    [][(HandoffAttempted /\ (WeatherFinish(TRUE) \/ TwoFinish(TRUE)))
        => /\ Len(emitted') = Len(emitted) + 1
           /\ emitted'[Len(emitted')].state
                 \in {"completed", "input-required"}
           /\ emitted'[Len(emitted')].parts
                 = FinalParts(agent_response_content, executor = "two")]_vars

\* the request that the step presents to the user
Presented(r) ==
    CarriesRequest(Directives(emitted'[Len(emitted')].parts), r)

\* C30: a conversation holds at most one pending request: a request the
\* Gatherer writes while another one is pending takes its place, the
\* confirmation turn presents the request written last, and the replaced
\* request is not presented
C30_NewRequestReplacesOld ==
    [][/\ \A location \in ToolLocations :
            (pc = "gen" /\ pending'[conv] # pending[conv]
               /\ pending'[conv].location = location)
               => /\ pending'[conv] = Request(location)
                  /\ \A c \in ConvIds \ {conv} : pending'[c] = pending[c]
       /\ EmitsConfirmationBatch
            => /\ Presented(pending[conv])
               /\ displaced # "none"
                    => /\ pending[conv].location # displaced
                       /\ ~Presented(Request(displaced))]_vars

\* C30 witness: the Gatherer wrote a request for Boston and then one for
\* Austin, and the confirmation turn presents only the one for Austin
C30_Witness ==
    /\ pc = "done" /\ agent = "confirmation_agent"
    /\ displaced = "Boston"
    /\ LastStatus.state = "input-required"
    /\ CarriesRequest(Directives(LastStatus.parts), Request("Austin"))
    /\ \A n \in 1..Len(LastStatus.parts) :
          ~InSeq("Boston", LastStatus.parts[n].data.v)
    /\ pending[conv] = NoRequest

\* the validation of the reply by itself agrees with ValidateReply
PayloadStepsAgree ==
    LET v == ValidateReply(reply)
    IN  /\ step = "extracted" => (extracted.diag = "" <=> v.diag \notin
              {DiagDelimiter, DiagEmptyJson, DiagEmptyCleaned})
        /\ step = "parsed" => (parsed_json_data.ok <=> v.diag \in
              {"", DiagSchema})
        /\ step = "validated" =>
              /\ is_valid <=> v.diag = ""
              /\ is_valid => v.batch = parsed_json_data.val

\* the four action keys of a directive
ActionKeys ==
    {"\"beginRendering\"", "\"surfaceUpdate\"", "\"dataModelUpdate\"",
     "\"deleteSurface\""}

\* a directive batch as the specification defines it: a sequence whose
\* elements are objects with exactly one of the four action keys and the
\* required fields of that key
StatedValidBatch(val) ==
    /\ val.t = "arr"
    /\ \A n \in 1..Len(val.v) :
          /\ val.v[n].t = "obj"
          /\ Cardinality({key \in ActionKeys : HasKey(val.v[n], key)}) = 1
          /\ ValidMessage(val.v[n])

\* C23: the schema validation accepts a parsed value exactly when it is
\* a sequence of objects that each have exactly one of the four action
\* keys with its required fields; an element with none or with several of
\* the keys is rejected
C23_ValidatorAcceptsExactlyBatches ==
    step = "validated" =>
        (is_valid <=> StatedValidBatch(parsed_json_data.val))

\* C24: applying a repair to its own result changes nothing, for the
\* normal and for the aggressive repair
C24_RepairIdempotent ==
    (Len(applied) = 2 /\ applied[1] = applied[2]) => texts[2] = texts[1]

\* C25: the normal repair leaves a payload that parses as JSON as it is
C25_RepairKeepsWellFormedJson ==
    (applied # <<>> /\ applied[1] = "_repair_json"
       /\ Loads(extracted.payload).ok)
        => texts[1] = extracted.payload

\* the payload has exactly one unmatched "{" and one unmatched "["
OneUnmatchedEach(json_str) ==
    /\ Count(json_str, "{") - Count(json_str, "}") = 1
    /\ Count(json_str, "[") - Count(json_str, "]") = 1

\* C26: for a payload with exactly one unmatched "{" and one unmatched
\* "[", the normal repair followed by the aggressive repair adds exactly
\* one "}" and one "]" and the result parses
C26_OneUnmatchedEachIsClosed ==
    (applied = <<"_repair_json", "_repair_json_aggressive">>
       /\ OneUnmatchedEach(extracted.payload))
        => /\ Count(texts[2], "}") = Count(extracted.payload, "}") + 1
           /\ Count(texts[2], "]") = Count(extracted.payload, "]") + 1
           /\ Loads(texts[2]).ok

\* C27: the JSON text of a valid directive batch B, run through repair,
\* parsing and schema validation, is accepted and parses to B
C27_RoundTrip ==
    \A B \in Batches :
        reply = Frame("plain", Serialize(B))
            => /\ step = "parsed"
                    => parsed_json_data.ok /\ parsed_json_data.val = B
               /\ step = "validated"
                    => is_valid /\ parsed_json_data.val = B

\* the payload part of a reply, stripped of whitespace
PayloadPart(r) == Strip(SplitJson(r))

\* a fenced code block frames the payload part
Framed(p) == Len(p) >= 2 /\ p[1] = TICKS /\ p[Len(p)] = TICKS

\* the text between the fence markers, without the language tag
Unframed(p) ==
    LET inner == SubSeq(p, 2, Len(p) - 1)
    IN  Strip(IF inner # <<>> /\ Head(inner) = "json" THEN Tail(inner)
              ELSE inner)

\* the extraction as the specification defines it
StatedExtract(r) ==
    LET p == PayloadPart(r)
        inner == IF Framed(p) THEN Unframed(p) ELSE p
    IN  IF ~HasDelimiter(r)
        THEN [kind |-> "DelimiterMissing", payload |-> <<>>]
        ELSE IF inner = <<>>
        THEN [kind |-> "EmptyPayload", payload |-> <<>>]
        ELSE [kind |-> "Payload", payload |-> inner]

\* the failure the diagnostic of the extraction stands for
KindOf(diag) ==
    CASE diag = DiagDelimiter -> "DelimiterMissing"
      [] diag \in {DiagEmptyJson, DiagEmptyCleaned} -> "EmptyPayload"
      [] OTHER -> "Payload"

\* C28: the extraction splits the reply at the first delimiter, fails
\* with DelimiterMissing exactly when there is none and with EmptyPayload
\* exactly when nothing remains of the payload part after the whitespace
\* and a framing fenced code block are stripped, and otherwise returns
\* the payload unchanged.  Stated for replies whose payload part is
\* framed by a fenced code block or has no fence marker at all
C28_ExtractionAsStated ==
    (step = "extracted"
       /\ (HasDelimiter(reply)
             => Framed(PayloadPart(reply))
                  \/ Count(PayloadPart(reply), TICKS) = 0))
        => /\ KindOf(extracted.diag) = StatedExtract(reply).kind
           /\ extracted.payload = StatedExtract(reply).payload

\* the Fetcher obtains a session
FetcherOpens ==
    /\ obtained' # obtained
    /\ obtained'.running
    /\ obtained'.agent = "weather_agent"

RepairInput ==
    IF Len(applied) = 1 THEN extracted.payload ELSE texts[Len(texts) - 1]

\* the text the balance repair of the last aggressive repair started from
BalanceInput == BeforeBalance(RepairInput)

\* how many "{" (or "[") of the text have no closer
Missing(json_str, open, close) == Count(json_str, open) - Count(json_str, close)

\* the result the balance repair is stated to have: the missing closers,
\* brackets before braces, right before the last "]" of the text, or at
\* the end when it has none
StatedBalance(json_str) ==
    LET closers == Repeat("]", Missing(json_str, "[", "]"))
                     \o Repeat("}", Missing(json_str, "{", "}"))
        last_bracket == RFind(json_str, "]")
    IN  IF last_bracket = 0 THEN json_str \o closers
        ELSE SubSeq(json_str, 1, last_bracket - 1) \o closers
               \o SubSeq(json_str, last_bracket, Len(json_str))

\* C32: when "{" or "[" have missing closers (and neither kind has a
\* closer too many), the balance repair inserts exactly the missing
\* closers of each kind, brackets before braces, right before the last
\* "]" or at the end when there is none, and afterwards the counts of
\* "{" and "}" and the counts of "[" and "]" are equal
C32_BalanceRepairBalances ==
    (/\ applied # <<>>
     /\ applied[Len(applied)] = "_repair_json_aggressive"
     /\ Missing(BalanceInput, "{", "}") >= 0
     /\ Missing(BalanceInput, "[", "]") >= 0
     /\ Missing(BalanceInput, "{", "}") + Missing(BalanceInput, "[", "]") > 0)
        => /\ BalanceRepair(BalanceInput) = StatedBalance(BalanceInput)
           /\ Missing(BalanceRepair(BalanceInput), "{", "}") = 0
           /\ Missing(BalanceRepair(BalanceInput), "[", "]") = 0

\* a stream call of the turn is running
Streaming == pc \in {"loop", "gen"}

\* the items with is_task_complete = false that the stream call of the
\* turn has yielded: the router turns each into a working update that
\* carries the agent's processing message
IntermediateItems ==
    Cardinality({n \in 1..Len(emitted) :
        /\ emitted[n].state = "working"
        /\ emitted[n].parts = <<TextPart(ProcessingMessage(agent))>>})

\* the generation call of the last attempt raised an exception
GenerationRaised ==
    /\ pc = "done"
    /\ outcomes # <<>>
    /\ outcomes[Len(outcomes)].result = Raised

\* C33: a stream call whose generation calls return ends, and it yields
\* exactly one item with is_task_complete = true, the last one: while
\* the call runs it has yielded no such item and one item with
\* is_task_complete = false for every intermediate event, and after the
\* complete item it takes no further step
C33_StreamYieldsOneCompleteItem ==
    /\ [](Streaming => agent_response_content = None)
    /\ [](pc \in {"loop", "gen", "yielded"} => IntermediateItems = events)
    /\ [](pc = "yielded" => agent_response_content \notin {None, <<>>})
    /\ [][pc = "yielded"
            => /\ pc' \notin {"loop", "gen"}
               /\ events' = events
               /\ calls' = calls
               /\ outcomes' = outcomes
               /\ agent_response_content' = agent_response_content]_vars
    /\ (Streaming ~> (pc = "yielded" \/ GenerationRaised))

\* a stream call has yielded its complete item after an intermediate
\* item and a second generation call
C33_Witness ==
    /\ pc = "yielded"
    /\ events > 0
    /\ Len(calls) = 2
    /\ agent_response_content # None

\* the positions of the terminal status updates of the turn
TerminalUpdates ==
    {n \in 1..Len(emitted) : emitted[n].state \in TerminalStates}

\* C34: a turn of TwoAgentExecutor emits exactly one terminal status
\* update (completed or input-required): it is the last update of the
\* turn, every update before it is a working update, and execute returns
\* only after it
C34_TwoEmitsOneTerminalLast ==
    executor = "two"
        => /\ TerminalUpdates \subseteq {Len(emitted)}
           /\ \A n \in 1..Len(emitted) :
                 emitted[n].state \in TerminalStates \cup {"working"}
           /\ pc = "done" => TerminalUpdates = {Len(emitted)}
           /\ pc # "done" => TerminalUpdates = {}

\* a turn of TwoAgentExecutor has ended with the confirmation turn after
\* two working updates
C34_Witness ==
    /\ executor = "two"
    /\ pc = "done"
    /\ Len(emitted) = 3
    /\ emitted[1].state = "working"
    /\ emitted[2].state = "working"
    /\ emitted[3].state = "input-required"

\* C35: a confirmation batch is emitted in a turn only if the Gatherer
\* wrote a ConfirmationRequest during that turn; a request left in the
\* conversation state by an earlier turn never makes a later turn, in
\* which the Gatherer requested no confirmation, end with a confirmation
\* turn
C35_ConfirmationOnlyForRequestOfTheTurn ==
    [][EmitsConfirmationBatch => requested]_vars

\* the step changes what is kept for the identifier: its session in the
\* Gatherer's session service or the turn under way for it
Touches(sid) ==
    \/ sessions'["confirmation_agent"][sid]
         # sessions["confirmation_agent"][sid]
    \/ handoffs'[sid] # handoffs[sid]

\* C36: conversations are isolated.  With turns for distinct identifiers
\* under way at the same time, a step of a turn changes what is kept for
\* its own identifier only; the session of an identifier changes only in
\* a step of a turn for that identifier; and the request a turn shows is
\* the one its own session held, which that step deletes, so that what a
\* turn for B emits does not depend on the turns for A
C36_ConversationsIsolated ==
    [][\A a \in SessionIds :
         /\ \A b \in SessionIds \ {a} : ~(Touches(a) /\ Touches(b))
         /\ sessions'["confirmation_agent"][a]
               # sessions["confirmation_agent"][a]
              => /\ handoffs[a].pos \in {"idle", "gen", "yielded"}
                 /\ handoffs'[a].pos \in {"gen", "done"}
         /\ (handoffs'[a] # handoffs[a] /\ handoffs'[a].shown # NoRequest)
              => /\ handoffs'[a].shown
                      = sessions["confirmation_agent"][a].pending
                 /\ sessions'["confirmation_agent"][a].pending = NoRequest
         /\ (handoffs'[a].pos = "done" /\ handoffs[a].pos = "yielded"
               /\ sessions["confirmation_agent"][a].pending = NoRequest)
              => handoffs'[a].shown = NoRequest]_vars

\* a turn has shown the request for Austin of its own conversation while
\* another conversation, whose turn is under way, holds a request for
\* Boston
C36_Witness ==
    \E a \in SessionIds, b \in SessionIds :
        /\ a # b
        /\ handoffs[b].pos = "done"
        /\ handoffs[b].shown = Request("Austin")
        /\ handoffs[a].pos = "gen"
        /\ sessions["confirmation_agent"][a].pending = Request("Boston")

\* WeatherAgentExecutor ends a turn whose reply is not empty
WeatherEndsNormalReply ==
    /\ executor = "weather"
    /\ pc = "yielded"
    /\ pc' = "done"
    /\ agent_response_content \notin {None, <<>>}
    /\ PendingOf(agent, conv) = NoRequest

\* C37: in WeatherAgentExecutor the status of a normal reply (no
\* confirmation turn, not empty) is completed with final = true when the
\* inbound action is confirmAlerts, confirm_weather_selection or
\* rejectAlerts, and input-required with final = false for every other
\* turn
C37_NormalReplyState ==
    [][WeatherEndsNormalReply
         => /\ Len(emitted') = Len(emitted) + 1
            /\ LET update == emitted'[Len(emitted')]
               IN  IF action \in {"confirmAlerts", "confirm_weather_selection",
                                  "rejectAlerts"}
                   THEN update.state = "completed" /\ update.final
                   ELSE update.state = "input-required" /\ ~update.final]_vars

====
